---- MODULE Spec2Model ----
(***************************************************************************)
(* Knowledge Decomposition Pipeline                                        *)
(* (backend/services/learning_path_pipeline.py, class LearningPathPipeline)*)
(*                                                                         *)
(* create_learning_path is modelled as a sequential state machine whose    *)
(* program counter pc stops at every collaborator call (material fetch,    *)
(* job-status update, oracle call, compression, storage, relational        *)
(* insert).  Each collaborator call either returns or raises.  The pure    *)
(* helpers (_create_batches, _normalize_prerequisites, _detect_cycles,     *)
(* _validate_pedagogical_soundness, _build_edges) are operators computed   *)
(* the way the code computes them.                                         *)
(*                                                                         *)
(* Python values: a missing dictionary key is the marker Absent; the empty *)
(* string is the only falsy id; warnings, which the code formats as text,  *)
(* are records naming the kind of warning and the ids, labels and numbers  *)
(* the text quotes.                                                        *)
(***************************************************************************)
EXTENDS Integers, Sequences, FiniteSets, TLC

VARIABLES
    pc,                  \* control point of create_learning_path
    session_materials,   \* materials the repository holds for the session
    batch_size,          \* self.batch_size
    materials,           \* materials returned by _fetch_materials
    batches,             \* batches = self._create_batches(materials)
    i,                   \* loop index of "for i, batch in enumerate(batches)"
    batch_summaries,     \* batch_summaries list
    combined_len,        \* len(combined_text) in _create_meta_summary
    meta_summary,        \* text handed to _decompose_knowledge
    reply,               \* result.get("nodes", []) of the oracle's decomposition reply
    knowledge_dag,       \* value returned by _decompose_knowledge
    document,            \* document built by _store_results
    k,                   \* loop index of the row inserts in _store_results
    storage,             \* objects of bucket "learning_paths"
    rows,                \* rows inserted into the relational tables
    jobRow,              \* row of learning_path_jobs with id job_id
    log,                 \* collaborator calls made so far, in order
    exc,                 \* message of the exception being handled
    result               \* outcome of create_learning_path

vars == <<pc, session_materials, batch_size, materials, batches, i, batch_summaries, combined_len,
          meta_summary, reply, knowledge_dag, document, k, storage, rows,
          jobRow, log, exc, result>>

(***************************************************************************)
(* Bounds of the model.                                                    *)
(***************************************************************************)
MaxMaterials == 5
MaxBatchSize == 3
MaxListLen == 12
MaxSize == 5
MaxEdges == 3
MaxTypedEdges == 2
MaxDepth == 1
MaxRatioEdges == 5

(***************************************************************************)
(* Python values.                                                          *)
(***************************************************************************)
Absent == "<absent>"
NoDepth == 0 - 1
LegacyReasoning == "Legacy prerequisite - relationship inferred"
NoReasoning == "No reasoning provided"
RelTypes == {"requires", "builds_on", "related"}

Range(s) == {s[x] : x \in DOMAIN s}
Min(a, b) == IF a < b THEN a ELSE b
Truthy(s) == s # ""

(***************************************************************************)
(* _create_batches: for i in range(0, len(materials), batch_size):         *)
(*                      batches.append(materials[i:i + batch_size])        *)
(***************************************************************************)
RECURSIVE BatchesFromMut(_, _, _)
BatchesFromMut(ms, size, start) ==
    IF start >= Len(ms) THEN << >>
    ELSE <<SubSeq(ms, start + 1, Min(start + size - 1, Len(ms)))>>
         \o BatchesFromMut(ms, size, start + size)

RECURSIVE BatchesFrom(_, _, _)
BatchesFrom(ms, size, start) ==
    IF start >= Len(ms) THEN << >>
    ELSE <<SubSeq(ms, start + 1, Min(start + size, Len(ms)))>>
         \o BatchesFrom(ms, size, start + size)

create_batches(ms, size) == BatchesFrom(ms, size, 0)

(***************************************************************************)
(* _normalize_prerequisites.  A raw prerequisite is a record               *)
(*   [type, value, node_id, id, relationship, reasoning]                   *)
(* type "str": a bare id string (value); type "dict": an object whose keys *)
(* are the fields that are not Absent; any other type is skipped.          *)
(***************************************************************************)
\* NormalizeOne reading only the key "id" of an object.
NormalizeOneMut(p) ==
    IF p.type = "str" THEN
        <<[node_id |-> p.value,
           relationship |-> "requires",
           reasoning |-> LegacyReasoning]>>
    ELSE IF p.type = "dict" THEN
        <<[node_id |-> IF p.id # Absent THEN p.id ELSE "",
           relationship |-> IF p.relationship # Absent THEN p.relationship
                            ELSE "requires",
           reasoning |-> IF p.reasoning # Absent THEN p.reasoning
                         ELSE NoReasoning]>>
    ELSE << >>

\* NormalizeOne typing every object's edge requires.
NormalizeOneRequiresMut(p) ==
    IF p.type = "str" THEN
        <<[node_id |-> p.value,
           relationship |-> "requires",
           reasoning |-> LegacyReasoning]>>
    ELSE IF p.type = "dict" THEN
        <<[node_id |-> IF p.node_id # Absent THEN p.node_id
                       ELSE IF p.id # Absent THEN p.id ELSE "",
           relationship |-> "requires",
           reasoning |-> IF p.reasoning # Absent THEN p.reasoning
                         ELSE NoReasoning]>>
    ELSE << >>

NormalizeOne(p) ==
    IF p.type = "str" THEN
        <<[node_id |-> p.value,
           relationship |-> "requires",
           reasoning |-> LegacyReasoning]>>
    ELSE IF p.type = "dict" THEN
        <<[node_id |-> IF p.node_id # Absent THEN p.node_id
                       ELSE IF p.id # Absent THEN p.id ELSE "",
           relationship |-> IF p.relationship # Absent THEN p.relationship
                            ELSE "requires",
           reasoning |-> IF p.reasoning # Absent THEN p.reasoning
                         ELSE NoReasoning]>>
    ELSE << >>

RECURSIVE normalize_prerequisites(_)
normalize_prerequisites(prereqs) ==
    IF prereqs = << >> THEN << >>
    ELSE NormalizeOne(Head(prereqs)) \o normalize_prerequisites(Tail(prereqs))

(***************************************************************************)
(* Nodes after the loop of _decompose_knowledge (lines 322-329): a missing *)
(* id is generated ("node_" + 8 hex digits of a uuid4: gen[x] is the value *)
(* drawn for node x) and the prerequisites are normalized.                 *)
(***************************************************************************)
MissingIds(raw) == {x \in DOMAIN raw : raw[x].id = Absent}

EnhanceNodes(raw, gen) ==
    [x \in DOMAIN raw |->
        [id |-> IF raw[x].id = Absent THEN gen[x] ELSE raw[x].id,
         label |-> raw[x].label,
         depth |-> raw[x].depth,
         prerequisites |-> normalize_prerequisites(raw[x].prerequisites)]]

DepthOf(n) == IF n.depth = NoDepth THEN 0 ELSE n.depth

NodeIdSet(nodes) == {nodes[x].id : x \in DOMAIN nodes}

\* node_map = {n["id"]: n for n in nodes}: the last node with an id wins.
NodeMap(nodes, id) ==
    nodes[CHOOSE x \in DOMAIN nodes :
            /\ nodes[x].id = id
            /\ \A y \in DOMAIN nodes : nodes[y].id = id => y <= x]

\* The <<node index, prerequisite index>> pairs in the order of the loops
\* "for node in nodes: for prereq in node.get('prerequisites', [])".
RECURSIVE PairsFrom(_, _)
PairsFrom(nodes, x) ==
    IF x > Len(nodes) THEN << >>
    ELSE [y \in 1..Len(nodes[x].prerequisites) |-> <<x, y>>]
         \o PairsFrom(nodes, x + 1)

Pairs(nodes) == PairsFrom(nodes, 1)
PrereqAt(nodes, pr) == nodes[pr[1]].prerequisites[pr[2]]

(***************************************************************************)
(* _detect_cycles.  st = [visited, rec_stack, cycles, expanded, raised,    *)
(* entry_ok]; a cycle is the sequence of ids the code joins with " -> ";   *)
(* expanded lists the ids whose prerequisites were iterated; raised        *)
(* records a ValueError of path.index; entry_ok records that at every      *)
(* entry of dfs so far rec_stack was the set of the ids in path.           *)
(***************************************************************************)
\* path.index taken to be the start of the path.
IndexInMut(path, id) == 1

IndexIn(path, id) ==
    CHOOSE x \in DOMAIN path :
        path[x] = id /\ \A y \in DOMAIN path : path[y] = id => x <= y

RECURSIVE dfs(_, _, _, _)
RECURSIVE dfsPrereqs(_, _, _, _, _)

\* dfs with the visited test made before the recursion-stack test.
dfsMut(nodes, node_id, path, st) ==
    IF node_id \in st.visited THEN st
    ELSE
        LET st1 == [st EXCEPT !.visited = @ \cup {node_id},
                              !.rec_stack = @ \cup {node_id}]
            st2 == IF node_id \in NodeIdSet(nodes)
                   THEN dfsPrereqs(nodes, NodeMap(nodes, node_id).prerequisites, 1,
                                   path \o <<node_id>>,
                                   [st1 EXCEPT !.expanded = Append(@, node_id)])
                   ELSE st1
        IN  [st2 EXCEPT !.rec_stack = @ \ {node_id}]

dfs(nodes, node_id, path, s0) ==
    LET st == [s0 EXCEPT !.entry_ok = @ /\ s0.rec_stack = Range(path)]
    IN
    IF node_id \in st.rec_stack THEN
        IF node_id \in Range(path)
        THEN [st EXCEPT !.cycles = Append(@,
                 SubSeq(path, IndexIn(path, node_id), Len(path)) \o <<node_id>>)]
        ELSE [st EXCEPT !.raised = TRUE]
    ELSE IF node_id \in st.visited THEN st
    ELSE
        LET st1 == [st EXCEPT !.visited = @ \cup {node_id},
                              !.rec_stack = @ \cup {node_id}]
            st2 == IF node_id \in NodeIdSet(nodes)
                   THEN dfsPrereqs(nodes, NodeMap(nodes, node_id).prerequisites, 1,
                                   path \o <<node_id>>,
                                   [st1 EXCEPT !.expanded = Append(@, node_id)])
                   ELSE st1
        IN  [st2 EXCEPT !.rec_stack = @ \ {node_id}]

dfsPrereqs(nodes, prereqs, x, path, st) ==
    IF x > Len(prereqs) THEN st
    ELSE dfsPrereqs(nodes, prereqs, x + 1, path,
                    IF Truthy(prereqs[x].node_id)
                    THEN dfs(nodes, prereqs[x].node_id, path, st)
                    ELSE st)

RECURSIVE detectFrom(_, _, _)
detectFrom(nodes, x, st) ==
    IF x > Len(nodes) THEN st
    ELSE detectFrom(nodes, x + 1,
                    IF nodes[x].id \notin st.visited
                    THEN dfs(nodes, nodes[x].id, << >>, st)
                    ELSE st)

DetectState(nodes) ==
    detectFrom(nodes, 1, [visited |-> {}, rec_stack |-> {}, cycles |-> << >>,
                          expanded |-> << >>, raised |-> FALSE,
                          entry_ok |-> TRUE])

detect_cycles(nodes) == DetectState(nodes).cycles

(***************************************************************************)
(* _validate_pedagogical_soundness.  A warning is a record                 *)
(*   [kind, names, nums, cycles]                                           *)
(* cycle:    cycles = cycles[:3]                                           *)
(* dangling: names = <<node id, missing prerequisite id>>                  *)
(* depth:    names = <<node label, prerequisite label>>,                   *)
(*           nums = <<node depth, prerequisite depth>>                     *)
(* low_requires / high_related: nums = <<count, total>>                    *)
(* missing_reasoning: nums = <<count>>                                     *)
(***************************************************************************)
Warning(kind, names, nums, cycles) ==
    [kind |-> kind, names |-> names, nums |-> nums, cycles |-> cycles]

MapSeq(s, F(_)) == [x \in DOMAIN s |-> F(s[x])]

\* Check 1
CycleWarnings(nodes) ==
    LET cycles == detect_cycles(nodes)
    IN  IF cycles # << >>
        THEN <<Warning("cycle", << >>, << >>, SubSeq(cycles, 1, Min(3, Len(cycles))))>>
        ELSE << >>

\* Check 2
IsDangling(nodes, pr) ==
    /\ Truthy(PrereqAt(nodes, pr).node_id)
    /\ PrereqAt(nodes, pr).node_id \notin NodeIdSet(nodes)

DanglingWarnings(nodes) ==
    LET Test(pr) == IsDangling(nodes, pr)
        Make(pr) == Warning("dangling",
                            <<nodes[pr[1]].id, PrereqAt(nodes, pr).node_id>>,
                            << >>, << >>)
    IN  MapSeq(SelectSeq(Pairs(nodes), Test), Make)

\* Check 3
IsDepthViolationMut(nodes, pr) ==
    /\ PrereqAt(nodes, pr).node_id \in NodeIdSet(nodes)
    /\ PrereqAt(nodes, pr).relationship = "requires"
    /\ DepthOf(NodeMap(nodes, PrereqAt(nodes, pr).node_id)) > DepthOf(nodes[pr[1]])

IsDepthViolation(nodes, pr) ==
    /\ PrereqAt(nodes, pr).node_id \in NodeIdSet(nodes)
    /\ PrereqAt(nodes, pr).relationship = "requires"
    /\ DepthOf(NodeMap(nodes, PrereqAt(nodes, pr).node_id)) >= DepthOf(nodes[pr[1]])

\* node['label'] and node_map[prereq_id]['label'] raise KeyError without the key.
DepthWarningRaises(nodes, pr) ==
    \/ nodes[pr[1]].label = Absent
    \/ NodeMap(nodes, PrereqAt(nodes, pr).node_id).label = Absent

DepthWarnings(nodes) ==
    LET Test(pr) == IsDepthViolation(nodes, pr)
        Make(pr) ==
            LET pn == NodeMap(nodes, PrereqAt(nodes, pr).node_id)
            IN  Warning("depth", <<nodes[pr[1]].label, pn.label>>,
                        <<DepthOf(nodes[pr[1]]), DepthOf(pn)>>, << >>)
    IN  MapSeq(SelectSeq(Pairs(nodes), Test), Make)

DepthCheckRaises(nodes) ==
    \E x \in DOMAIN Pairs(nodes) :
        /\ IsDepthViolation(nodes, Pairs(nodes)[x])
        /\ DepthWarningRaises(nodes, Pairs(nodes)[x])

\* Check 4
RelKeys(nodes) ==
    RelTypes \cup {PrereqAt(nodes, Pairs(nodes)[x]).relationship : x \in DOMAIN Pairs(nodes)}

RelCounts(nodes) ==
    [r \in RelKeys(nodes) |->
        Cardinality({x \in DOMAIN Pairs(nodes) :
                        PrereqAt(nodes, Pairs(nodes)[x]).relationship = r})]

RatioWarningsLowMut(nodes) ==
    LET total == Len(Pairs(nodes))
        c == RelCounts(nodes)
    IN  IF total > 0
        THEN (IF 2 * c["requires"] <= total
              THEN <<Warning("low_requires", << >>, <<c["requires"], total>>, << >>)>>
              ELSE << >>)
             \o
             (IF 5 * c["related"] > total
              THEN <<Warning("high_related", << >>, <<c["related"], total>>, << >>)>>
              ELSE << >>)
        ELSE << >>

RatioWarningsMut(nodes) ==
    LET total == Len(Pairs(nodes))
        c == RelCounts(nodes)
    IN  IF total > 0
        THEN (IF 2 * c["requires"] < total
              THEN <<Warning("low_requires", << >>, <<c["requires"], total>>, << >>)>>
              ELSE << >>)
             \o
             (IF 5 * c["related"] >= total
              THEN <<Warning("high_related", << >>, <<c["related"], total>>, << >>)>>
              ELSE << >>)
        ELSE << >>

RatioWarnings(nodes) ==
    LET total == Len(Pairs(nodes))
        c == RelCounts(nodes)
    IN  IF total > 0
        THEN (IF 2 * c["requires"] < total
              THEN <<Warning("low_requires", << >>, <<c["requires"], total>>, << >>)>>
              ELSE << >>)
             \o
             (IF 5 * c["related"] > total
              THEN <<Warning("high_related", << >>, <<c["related"], total>>, << >>)>>
              ELSE << >>)
        ELSE << >>

\* Check 5
MissingReasoning(nodes) ==
    Cardinality({x \in DOMAIN Pairs(nodes) :
        LET p == PrereqAt(nodes, Pairs(nodes)[x])
        IN  /\ p.relationship = "requires"
            /\ (p.reasoning = "" \/ p.reasoning = NoReasoning)})

ReasoningWarnings(nodes) ==
    IF MissingReasoning(nodes) > 0
    THEN <<Warning("missing_reasoning", << >>, <<MissingReasoning(nodes)>>, << >>)>>
    ELSE << >>

\* raised: the call raised (KeyError 'label', or ValueError of path.index).
validate_pedagogical_soundness(nodes) ==
    LET warnings == CycleWarnings(nodes) \o DanglingWarnings(nodes)
                    \o DepthWarnings(nodes) \o RatioWarnings(nodes)
                    \o ReasoningWarnings(nodes)
    IN  IF DetectState(nodes).raised \/ DepthCheckRaises(nodes)
        THEN [raised |-> TRUE, valid |-> FALSE, warnings |-> << >>,
              relationship_counts |-> RelCounts(nodes)]
        ELSE [raised |-> FALSE, valid |-> (Len(warnings) = 0),
              warnings |-> warnings,
              relationship_counts |-> RelCounts(nodes)]

(***************************************************************************)
(* Metadata of _decompose_knowledge (lines 336-355) and _build_edges.      *)
(***************************************************************************)
SeqMax(s) ==
    IF s = << >> THEN 0
    ELSE CHOOSE m \in Range(s) : \A v \in Range(s) : v <= m

MetadataOf(nodes) ==
    [total_nodes |-> Len(nodes),
     max_depth |-> SeqMax([x \in DOMAIN nodes |-> DepthOf(nodes[x])]),
     root_node_count |-> Cardinality({x \in DOMAIN nodes : nodes[x].prerequisites = << >>}),
     relationship_distribution |-> RelCounts(nodes),
     validation |-> validate_pedagogical_soundness(nodes)]

DagOf(nodes) == [nodes |-> nodes, metadata |-> MetadataOf(nodes)]

\* build_edges with source and target exchanged.
build_edgesMut(nodes) ==
    LET Make(pr) == [source |-> nodes[pr[1]].id,
                     target |-> PrereqAt(nodes, pr).node_id,
                     type |-> PrereqAt(nodes, pr).relationship,
                     reasoning |-> PrereqAt(nodes, pr).reasoning]
    IN  MapSeq(Pairs(nodes), Make)

build_edges(nodes) ==
    LET Make(pr) == [source |-> PrereqAt(nodes, pr).node_id,
                     target |-> nodes[pr[1]].id,
                     type |-> PrereqAt(nodes, pr).relationship,
                     reasoning |-> PrereqAt(nodes, pr).reasoning]
    IN  MapSeq(Pairs(nodes), Make)

(***************************************************************************)
(* Oracle replies.  A raw node is [id, label, depth, prerequisites].       *)
(***************************************************************************)
RawStr(t) ==
    [type |-> "str", value |-> t, node_id |-> Absent, id |-> Absent,
     relationship |-> Absent, reasoning |-> Absent]
RawDict(nid, id, rel, why) ==
    [type |-> "dict", value |-> Absent, node_id |-> nid, id |-> id,
     relationship |-> rel, reasoning |-> why]
RawOther ==
    [type |-> "int", value |-> Absent, node_id |-> Absent, id |-> Absent,
     relationship |-> Absent, reasoning |-> Absent]

NodeIds == <<"A", "B", "C">>
Targets == Range(NodeIds) \cup {"", "Z"}
LabelModes == {"id", "name", "none", "mixed"}
NameOf(id) == "Concept " \o id

LabelFor(mode, x, id) ==
    CASE mode = "id" -> id
      [] mode = "name" -> NameOf(id)
      [] mode = "none" -> Absent
      [] OTHER -> IF x = 1 THEN Absent ELSE NameOf(id)

PrereqsOf(el, x) ==
    LET Mine(e) == e[1] = x
        sel == SelectSeq(el, Mine)
    IN  [y \in DOMAIN sel |-> sel[y][2]]

MakeGraph(n, mode, depths, el) ==
    [x \in 1..n |->
        [id |-> NodeIds[x], label |-> LabelFor(mode, x, NodeIds[x]),
         depth |-> depths[x], prerequisites |-> PrereqsOf(el, x)]]

\* Prerequisites of the structural replies: requires edges to any target.
StructPrereqs == {RawDict(t, Absent, "requires", "why") : t \in Targets}

\* Prerequisites of the typed replies: every edge type, with and without
\* relationship and reasoning, a bare string, an object without id, a number.
TypedPrereqs ==
    {RawDict(t, Absent, r, "why") : t \in {"A", "B"}, r \in RelTypes}
    \cup {RawDict(Absent, t, Absent, Absent) : t \in {"A", "B"}}
    \cup {RawStr("B"), RawDict(Absent, Absent, Absent, "why"), RawOther}

\* The ratio replies: node B at depth 1 lists node A at depth 0 once per entry
\* of rels, with that relationship (a type outside the three named ones too).
RatioRelTypes == RelTypes \cup {"extends"}
RatioGraph(rels) ==
    MakeGraph(2, "name", <<0, 1>>,
              [x \in DOMAIN rels |-> <<2, RawDict("A", Absent, rels[x], "why")>>])

\* Replies that give the id "A" to two nodes; either node may list it.
RepeatedIdReplies ==
    {<<[id |-> "A", label |-> "Concept A", depth |-> 0, prerequisites |-> first],
       [id |-> "A", label |-> "Concept B", depth |-> 1, prerequisites |-> el]>> :
        first \in {<< >>, <<RawStr("A")>>}, el \in {<< >>, <<RawStr("A")>>}}

(***************************************************************************)
(* The end-to-end reply: n nodes "n1".."n<n>", node x at depth x - 1; node *)
(* x > 1 lists node x - 1, and nodes 3..8 also list node x - 2: n + 5      *)
(* edges.  In the order of the edges the first req are typed requires, the *)
(* next rel related, the others builds_on; why is the reasoning of the     *)
(* requires edges (Absent: none given).                                    *)
(***************************************************************************)
ChainId(x) == "n" \o ToString(x)

ChainFirstEdge(x) == IF x <= 8 THEN 2 * x - 4 ELSE x + 5

ChainPrereq(e, target, req, rel, why) ==
    IF e <= req THEN RawDict(ChainId(target), Absent, "requires", why)
    ELSE IF e <= req + rel THEN RawDict(ChainId(target), Absent, "related", "why")
    ELSE RawDict(ChainId(target), Absent, "builds_on", "why")

ChainReply(n, req, rel, why) ==
    [x \in 1..n |->
        [id |-> ChainId(x), label |-> NameOf(ChainId(x)), depth |-> x - 1,
         prerequisites |->
            IF x = 1 THEN << >>
            ELSE IF x = 2 THEN <<ChainPrereq(1, 1, req, rel, why)>>
            ELSE IF x <= 8
                 THEN <<ChainPrereq(ChainFirstEdge(x), x - 1, req, rel, why),
                        ChainPrereq(ChainFirstEdge(x) + 1, x - 2, req, rel, why)>>
            ELSE <<ChainPrereq(ChainFirstEdge(x), x - 1, req, rel, why)>>]]

ChainReplies ==
    {ChainReply(45, 30, rel, "why") : rel \in {0, 10, 11}}
    \cup {ChainReply(45, 30, 0, Absent)}

\* A few small replies: no nodes, a three-node cycle, an edge between two
\* unlabelled nodes of equal depth, nodes without id or depth.
SmallReplies ==
    {<< >>,
     MakeGraph(3, "name", [x \in 1..3 |-> 0],
               <<<<1, RawStr("B")>>, <<2, RawStr("C")>>, <<3, RawStr("A")>>>>),
     MakeGraph(2, "none", [x \in 1..2 |-> 1], <<<<1, RawStr("B")>>>>),
     MakeGraph(2, "name", <<1, 0>>,
               <<<<1, RawDict("B", Absent, "requires", "why")>>,
                 <<1, RawDict(Absent, "Z", "related", "why")>>>>),
     <<[id |-> Absent, label |-> "Concept", depth |-> NoDepth, prerequisites |-> << >>],
       [id |-> Absent, label |-> "Concept", depth |-> 1,
        prerequisites |-> <<RawDict(Absent, Absent, Absent, Absent)>>]>>}

GeneratedIds == {"node_0a1b2c3d", "node_4e5f6a7b"}

(***************************************************************************)
(* Collaborators.                                                          *)
(***************************************************************************)
CompressThreshold == 10000
LenChoices == {CompressThreshold - 1, CompressThreshold, CompressThreshold + 1}
ShouldCompressMut(n) == n >= CompressThreshold

\* line 267: if len(combined_text) > 10000
ShouldCompress(n) == n > CompressThreshold
Messages == {"timeout", ""}            \* str(e) of an exception a collaborator raises
KeyErrorLabel == "'label'"             \* str(KeyError('label'))
NoMaterialsError == "No materials found for this session"
StoragePath == "user/session/learning_path.json"

NoProgress == [batches_processed |-> 0 - 1, total_batches |-> 0 - 1]
\* Progress reporting the batches done so far as the total.
ProgressMut(done, total) == [batches_processed |-> done, total_batches |-> done]

Progress(done, total) == [batches_processed |-> done, total_batches |-> total]

Call(op, what, ok, arg) == [op |-> op, what |-> what, ok |-> ok, arg |-> arg]

NoResult ==
    [returned |-> FALSE, escaped |-> FALSE, success |-> FALSE,
     learning_path_id |-> 0, storage_path |-> Absent, total_nodes |-> 0,
     max_depth |-> 0, relationship_distribution |-> << >>, error |-> Absent]

\* LearningPathResult(success=False, error=msg)
FailureResult(msg) == [NoResult EXCEPT !.returned = TRUE, !.error = msg]

NoDag == DagOf(<< >>)
NoDocument ==
    [learning_path_id |-> 0, metadata |-> NoDag.metadata, nodes |-> << >>,
     edges |-> << >>, batch_summaries |-> << >>]

\* The update _update_job_status sends: status always, progress and
\* error_message only when truthy, completed_at with status completed.
JobUpdate(row, status, progress, error_message) ==
    [row EXCEPT !.status = status,
                !.progress = IF progress # NoProgress THEN progress ELSE @,
                !.error_message = IF error_message # Absent /\ error_message # ""
                                  THEN error_message ELSE @,
                !.completed_at = IF status = "completed" THEN TRUE ELSE @]

(***************************************************************************)
(* Initial states.                                                         *)
(***************************************************************************)
\* Everything but the inputs of a run.
InitLocals ==
    /\ i = 0
    /\ batch_summaries = << >>
    /\ combined_len = 0
    /\ meta_summary = ""
    /\ knowledge_dag = NoDag
    /\ document = NoDocument
    /\ k = 0
    /\ jobRow = [status |-> "pending", progress |-> NoProgress,
                 error_message |-> Absent, completed_at |-> FALSE]
    /\ log = << >>
    /\ exc = Absent
    /\ result = NoResult

\* What an earlier successful run for the same user and session left: its
\* document at the storage path and its rows, under its own learning_path_id.
EarlierObject == [path |-> StoragePath, learning_path_id |-> 0]
EarlierRows ==
    <<[table |-> "learning_paths", learning_path_id |-> 0, id |-> "",
       source |-> "", target |-> ""],
      [table |-> "knowledge_nodes", learning_path_id |-> 0, id |-> "A",
       source |-> "", target |-> ""]>>

\* A pipeline with any batch size, a job row the host created, and a bucket
\* and tables that may hold what an earlier run of the same session wrote.
Init ==
    /\ pc = "fetch"
    /\ session_materials \in {[x \in 1..n |-> x] : n \in 0..MaxMaterials}
    /\ batch_size \in 1..MaxBatchSize
    /\ materials = << >>
    /\ batches = << >>
    /\ reply \in SmallReplies
    /\ storage \in {{}, {EarlierObject}}
    /\ rows = IF storage = {} THEN << >> ELSE EarlierRows
    /\ InitLocals

(***************************************************************************)
(* create_learning_path.                                                   *)
(***************************************************************************)
Raise(what, m) ==
    /\ pc' = "except"
    /\ exc' = m
    /\ log' = Append(log, what)

\* One call of _update_job_status at control point here.  The update either
\* reaches the row or raises and leaves the row as it was.
UpdateJobStatus(here, status, progress, next) ==
    /\ pc = here
    /\ \/ /\ jobRow' = JobUpdate(jobRow, status, progress, Absent)
          /\ log' = Append(log, Call("job", status, TRUE, progress.batches_processed))
          /\ pc' = next
          /\ exc' = exc
       \/ \E m \in Messages :
            /\ Raise(Call("job", status, FALSE, progress.batches_processed), m)
            /\ jobRow' = jobRow

\* lines 111-120: an empty materials list ends the run at once.
AfterFetchMut(ms) == "status_batch_processing"

AfterFetch(ms) == IF ms = << >> THEN "done" ELSE "status_batch_processing"

\* line 127: the loop over the batches starts, or is skipped when there is none.
LoopStartMut(total) == "status_summarizing"

LoopStart(total) == IF total > 0 THEN "process_batch" ELSE "status_summarizing"

\* lines 138-143: after the progress update of batch idx the run sleeps before
\* the next batch, or leaves the loop.
AfterBatchNoSleepMut(idx, total) ==
    IF idx < total - 1 THEN "process_batch" ELSE "status_summarizing"

AfterBatchMut(idx, total) == IF idx < total - 1 THEN "sleep" ELSE "status_decomposing"

AfterBatch(idx, total) == IF idx < total - 1 THEN "sleep" ELSE "status_summarizing"

\* lines 109-118
FetchMaterials ==
    /\ pc = "fetch"
    /\ \/ /\ materials' = session_materials
          /\ log' = Append(log, Call("fetch", "materials", TRUE, Len(materials')))
          /\ exc' = exc
          /\ IF AfterFetch(materials') = "done"
             THEN /\ result' = FailureResult(NoMaterialsError)
                  /\ pc' = "done"
                  /\ batches' = batches
             ELSE /\ batches' = create_batches(materials', batch_size)
                  /\ pc' = AfterFetch(materials')
                  /\ result' = result
       \/ \E m \in Messages :
            /\ Raise(Call("fetch", "materials", FALSE, 0), m)
            /\ UNCHANGED <<materials, batches, result>>
    /\ UNCHANGED <<session_materials, batch_size, i, batch_summaries, combined_len, meta_summary, reply,
                   knowledge_dag, document, k, storage, rows, jobRow>>

\* lines 120-123
StatusBatchProcessing ==
    /\ UpdateJobStatus("status_batch_processing", "batch_processing",
                       Progress(0, Len(batches)), LoopStart(Len(batches)))
    /\ UNCHANGED <<session_materials, batch_size, materials, batches, i, batch_summaries, combined_len,
                   meta_summary, reply, knowledge_dag, document, k, storage, rows, result>>

\* lines 127-131: _process_batch(batch, i): one oracle call and its JSON parse.
ProcessBatch ==
    /\ pc = "process_batch"
    /\ \/ /\ batch_summaries' = Append(batch_summaries,
                [batch_index |-> i, material_ids |-> batches[i + 1]])
          /\ log' = Append(log, Call("oracle", "batch", TRUE, i))
          /\ pc' = "status_batch_done"
          /\ exc' = exc
       \/ \E m \in Messages :
            /\ Raise(Call("oracle", "batch", FALSE, i), m)
            /\ batch_summaries' = batch_summaries
       \/ \E m \in Messages :
            /\ Raise(Call("oracle", "batch_parse", FALSE, i), m)
            /\ batch_summaries' = batch_summaries
    /\ UNCHANGED <<session_materials, batch_size, materials, batches, i, combined_len, meta_summary, reply,
                   knowledge_dag, document, k, storage, rows, jobRow, result>>

\* lines 133-140: the progress update; the loop ends after the last batch.
StatusBatchDone ==
    /\ UpdateJobStatus("status_batch_done", "batch_processing",
                       Progress(i + 1, Len(batches)),
                       AfterBatch(i, Len(batches)))
    /\ UNCHANGED <<session_materials, batch_size, materials, batches, i, batch_summaries, combined_len,
                   meta_summary, reply, knowledge_dag, document, k, storage, rows, result>>

\* line 140: asyncio.sleep(self.rate_limit_delay), then the next iteration.
RateLimitSleep ==
    /\ pc = "sleep"
    /\ log' = Append(log, Call("sleep", "rate_limit", TRUE, i))
    /\ i' = i + 1
    /\ pc' = "process_batch"
    /\ UNCHANGED <<session_materials, batch_size, materials, batches, batch_summaries, combined_len,
                   meta_summary, reply, knowledge_dag, document, k, storage, rows,
                   jobRow, exc, result>>

\* line 143
StatusSummarizing ==
    /\ UpdateJobStatus("status_summarizing", "summarizing", NoProgress, "meta_summary")
    /\ UNCHANGED <<session_materials, batch_size, materials, batches, i, batch_summaries, combined_len,
                   meta_summary, reply, knowledge_dag, document, k, storage, rows, result>>

\* line 144: _create_meta_summary.  compress_text catches its own errors and
\* reports them as success == False.
CreateMetaSummary ==
    /\ pc = "meta_summary"
    /\ \E n \in LenChoices :
        /\ combined_len' = n
        /\ IF ShouldCompress(n)
           THEN \E success \in BOOLEAN :
                    /\ log' = Append(log, Call("compress", "combined", success, n))
                    /\ meta_summary' = IF success THEN "compressed" ELSE "combined"
           ELSE /\ log' = log
                /\ meta_summary' = "combined"
    /\ pc' = "status_decomposing"
    /\ UNCHANGED <<session_materials, batch_size, materials, batches, i, batch_summaries, reply,
                   knowledge_dag, document, k, storage, rows, jobRow, exc, result>>

\* line 147
StatusDecomposing ==
    /\ UpdateJobStatus("status_decomposing", "decomposing", NoProgress, "decompose")
    /\ UNCHANGED <<session_materials, batch_size, materials, batches, i, batch_summaries, combined_len,
                   meta_summary, reply, knowledge_dag, document, k, storage, rows, result>>

\* line 148: _decompose_knowledge: the oracle call, the JSON parse, ids and
\* normalization, validation, metadata.
DecomposeKnowledge ==
    /\ pc = "decompose"
    /\ \/ \E gen \in [MissingIds(reply) -> GeneratedIds] :
            LET dag == DagOf(EnhanceNodes(reply, gen))
            IN  IF dag.metadata.validation.raised
                THEN /\ Raise(Call("oracle", "decompose", TRUE, Len(reply)), KeyErrorLabel)
                     /\ knowledge_dag' = knowledge_dag
                ELSE /\ knowledge_dag' = dag
                     /\ log' = Append(log, Call("oracle", "decompose", TRUE, Len(reply)))
                     /\ pc' = "status_storing"
                     /\ exc' = exc
       \/ \E m \in Messages :
            /\ Raise(Call("oracle", "decompose", FALSE, 0), m)
            /\ knowledge_dag' = knowledge_dag
       \/ \E m \in Messages :
            /\ Raise(Call("oracle", "decompose_parse", FALSE, 0), m)
            /\ knowledge_dag' = knowledge_dag
    /\ UNCHANGED <<session_materials, batch_size, materials, batches, i, batch_summaries, combined_len,
                   meta_summary, reply, document, k, storage, rows, jobRow, result>>

\* line 151
StatusStoring ==
    /\ UpdateJobStatus("status_storing", "storing", NoProgress, "upload")
    /\ UNCHANGED <<session_materials, batch_size, materials, batches, i, batch_summaries, combined_len,
                   meta_summary, reply, knowledge_dag, document, k, storage, rows, result>>

\* lines 486-516: the document is built and uploaded.  An upload to a path
\* that holds an object fails with an "already exists" error.
StoredObject == [path |-> StoragePath, learning_path_id |-> 1]
PathTaken == \E o \in storage : o.path = StoragePath

BuildDocument(dag, summaries) ==
    [learning_path_id |-> 1,
     metadata |-> dag.metadata,
     nodes |-> dag.nodes,
     edges |-> build_edges(dag.nodes),
     batch_summaries |-> summaries]

\* AfterInserts going from the learning_paths row to the edge rows.
AfterInsertsMut(doc, stage) ==
    IF stage = "path" /\ Len(doc.edges) > 0 THEN "insert_edges"
    ELSE IF stage \in {"path", "edges"} /\ Len(doc.nodes) > 0 THEN "insert_nodes"
    ELSE "status_completed"

\* Where _store_results continues after its x-th insert loop.
AfterInserts(doc, stage) ==
    IF stage = "path" /\ Len(doc.nodes) > 0 THEN "insert_nodes"
    ELSE IF stage \in {"path", "nodes"} /\ Len(doc.edges) > 0 THEN "insert_edges"
    ELSE "status_completed"

\* lines 564-571
SuccessResult(dag) ==
    [returned |-> FALSE, escaped |-> FALSE, success |-> TRUE,
     learning_path_id |-> 1, storage_path |-> StoragePath,
     total_nodes |-> dag.metadata.total_nodes,
     max_depth |-> dag.metadata.max_depth,
     relationship_distribution |-> dag.metadata.relationship_distribution,
     error |-> Absent]

ResultAfter(next, dag, res) ==
    IF next = "status_completed" THEN SuccessResult(dag) ELSE res

Row(table, id, source, target) ==
    [table |-> table, learning_path_id |-> 1, id |-> id,
     source |-> source, target |-> target]

\* lines 517-520: after an "already exists" or "duplicate" error of the upload
\* the object is removed and uploaded again.
AfterUploadConflictMut == "insert_path"

AfterUploadConflict == "remove"

UploadDocument ==
    /\ pc = "upload"
    /\ document' = BuildDocument(knowledge_dag, batch_summaries)
    /\ IF PathTaken
       THEN \/ /\ log' = Append(log, Call("upload", "already exists", FALSE, 1))
               /\ pc' = AfterUploadConflict
               /\ exc' = exc
            \/ \E m \in Messages : Raise(Call("upload", "error", FALSE, 1), m)
       ELSE \/ /\ log' = Append(log, Call("upload", "stored", TRUE, 1))
               /\ pc' = "insert_path"
               /\ exc' = exc
            \/ \E m \in Messages : Raise(Call("upload", "error", FALSE, 1), m)
    /\ storage' = IF pc' = "insert_path" THEN storage \cup {StoredObject} ELSE storage
    /\ UNCHANGED <<session_materials, batch_size, materials, batches, i, batch_summaries, combined_len,
                   meta_summary, reply, knowledge_dag, k, rows, jobRow, result>>

\* line 520: remove([storage_path])
WithoutPathMut(objects) == objects

WithoutPath(objects) == {o \in objects : o.path # StoragePath}

RemoveObject ==
    /\ pc = "remove"
    /\ \/ /\ storage' = WithoutPath(storage)
          /\ log' = Append(log, Call("remove", "removed", TRUE, 1))
          /\ pc' = "reupload"
          /\ exc' = exc
       \/ \E m \in Messages :
            /\ Raise(Call("remove", "error", FALSE, 1), m)
            /\ storage' = storage
    /\ UNCHANGED <<session_materials, batch_size, materials, batches, i, batch_summaries, combined_len,
                   meta_summary, reply, knowledge_dag, document, k, rows, jobRow, result>>

\* lines 521-525
UploadAgain ==
    /\ pc = "reupload"
    /\ \/ /\ storage' = storage \cup {StoredObject}
          /\ log' = Append(log, Call("upload", "stored", TRUE, 2))
          /\ pc' = "insert_path"
          /\ exc' = exc
       \/ \E m \in Messages :
            /\ Raise(Call("upload", "error", FALSE, 2), m)
            /\ storage' = storage
    /\ UNCHANGED <<session_materials, batch_size, materials, batches, i, batch_summaries, combined_len,
                   meta_summary, reply, knowledge_dag, document, k, rows, jobRow, result>>

\* lines 530-537
InsertLearningPath ==
    /\ pc = "insert_path"
    /\ \/ /\ rows' = Append(rows, Row("learning_paths", "", "", ""))
          /\ log' = Append(log, Call("insert", "learning_paths", TRUE, 1))
          /\ pc' = AfterInserts(document, "path")
          /\ k' = 1
          /\ exc' = exc
          /\ result' = ResultAfter(pc', knowledge_dag, result)
       \/ \E m \in Messages :
            /\ Raise(Call("insert", "learning_paths", FALSE, 1), m)
            /\ UNCHANGED <<rows, k, result>>
    /\ UNCHANGED <<session_materials, batch_size, materials, batches, i, batch_summaries, combined_len,
                   meta_summary, reply, knowledge_dag, document, storage, jobRow>>

\* lines 540-551: one row per node.
InsertNode ==
    /\ pc = "insert_nodes"
    /\ \/ /\ rows' = Append(rows, Row("knowledge_nodes", document.nodes[k].id, "", ""))
          /\ log' = Append(log, Call("insert", "knowledge_nodes", TRUE, k))
          /\ pc' = IF k < Len(document.nodes) THEN "insert_nodes"
                   ELSE AfterInserts(document, "nodes")
          /\ k' = IF k < Len(document.nodes) THEN k + 1 ELSE 1
          /\ exc' = exc
          /\ result' = ResultAfter(pc', knowledge_dag, result)
       \/ \E m \in Messages :
            /\ Raise(Call("insert", "knowledge_nodes", FALSE, k), m)
            /\ UNCHANGED <<rows, k, result>>
    /\ UNCHANGED <<session_materials, batch_size, materials, batches, i, batch_summaries, combined_len,
                   meta_summary, reply, knowledge_dag, document, storage, jobRow>>

\* lines 554-562: one row per edge; lines 564-571: the result.
InsertPrerequisite ==
    /\ pc = "insert_edges"
    /\ \/ /\ rows' = Append(rows, Row("knowledge_prerequisites", "",
                                      document.edges[k].source, document.edges[k].target))
          /\ log' = Append(log, Call("insert", "knowledge_prerequisites", TRUE, k))
          /\ pc' = IF k < Len(document.edges) THEN "insert_edges"
                   ELSE AfterInserts(document, "edges")
          /\ k' = IF k < Len(document.edges) THEN k + 1 ELSE 1
          /\ exc' = exc
          /\ result' = ResultAfter(pc', knowledge_dag, result)
       \/ \E m \in Messages :
            /\ Raise(Call("insert", "knowledge_prerequisites", FALSE, k), m)
            /\ UNCHANGED <<rows, k, result>>
    /\ UNCHANGED <<session_materials, batch_size, materials, batches, i, batch_summaries, combined_len,
                   meta_summary, reply, knowledge_dag, document, storage, jobRow>>

\* line 157
StatusCompleted ==
    /\ UpdateJobStatus("status_completed", "completed", NoProgress, "return")
    /\ UNCHANGED <<session_materials, batch_size, materials, batches, i, batch_summaries, combined_len,
                   meta_summary, reply, knowledge_dag, document, k, storage, rows, result>>

\* line 159
ReturnResult ==
    /\ pc = "return"
    /\ result' = [result EXCEPT !.returned = TRUE]
    /\ pc' = "done"
    /\ UNCHANGED <<session_materials, batch_size, materials, batches, i, batch_summaries, combined_len,
                   meta_summary, reply, knowledge_dag, document, k, storage, rows,
                   jobRow, log, exc>>

\* lines 161-165: the handler.  Its own status update is not guarded: when it
\* raises, the exception leaves create_learning_path.
HandleException ==
    /\ pc = "except"
    /\ \/ /\ jobRow' = JobUpdate(jobRow, "failed", NoProgress, exc)
          /\ log' = Append(log, Call("job", "failed", TRUE, 0 - 1))
          /\ result' = FailureResult(exc)
       \/ \E m \in Messages :
            /\ jobRow' = jobRow
            /\ log' = Append(log, Call("job", "failed", FALSE, 0 - 1))
            /\ result' = [NoResult EXCEPT !.escaped = TRUE, !.error = m]
    /\ pc' = "done"
    /\ UNCHANGED <<session_materials, batch_size, materials, batches, i, batch_summaries, combined_len,
                   meta_summary, reply, knowledge_dag, document, k, storage, rows, exc>>

Next ==
    \/ FetchMaterials
    \/ StatusBatchProcessing
    \/ ProcessBatch
    \/ StatusBatchDone
    \/ RateLimitSleep
    \/ StatusSummarizing
    \/ CreateMetaSummary
    \/ StatusDecomposing
    \/ DecomposeKnowledge
    \/ StatusStoring
    \/ UploadDocument
    \/ RemoveObject
    \/ UploadAgain
    \/ InsertLearningPath
    \/ InsertNode
    \/ InsertPrerequisite
    \/ StatusCompleted
    \/ ReturnResult
    \/ HandleException

Spec == Init /\ [][Next]_vars

\* A run whose collaborators always return or raise: create_learning_path is
\* one coroutine and each of its awaits ends, so the run always takes its
\* next step.
SpecLive == Init /\ [][Next]_vars /\ WF_vars(Next)

(***************************************************************************)
(* The end-to-end scenario: 12 materials, batch size 5, a reply of 45      *)
(* nodes and 50 edges of which 30 are typed requires.                      *)
(***************************************************************************)
InitEndToEnd ==
    /\ pc = "fetch"
    /\ session_materials = [x \in 1..12 |-> x]
    /\ batch_size = 5
    /\ materials = << >>
    /\ batches = << >>
    /\ reply \in ChainReplies
    /\ storage \in {{}, {EarlierObject}}
    /\ rows = << >>
    /\ InitLocals

SpecEndToEnd == InitEndToEnd /\ [][Next]_vars

(***************************************************************************)
(* _create_batches applied to every materials list and batch size.         *)
(***************************************************************************)
InitBatches ==
    /\ pc = "create_batches"
    /\ session_materials = << >>
    /\ batch_size \in 1..MaxSize
    /\ materials \in {[x \in 1..n |-> x] : n \in 0..MaxListLen}
    /\ batches = << >>
    /\ reply = << >>
    /\ storage = {}
    /\ rows = << >>
    /\ InitLocals

CreateBatches ==
    /\ pc = "create_batches"
    /\ batches' = create_batches(materials, batch_size)
    /\ pc' = "batched"
    /\ UNCHANGED <<session_materials, batch_size, materials, i, batch_summaries, combined_len, meta_summary,
                   reply, knowledge_dag, document, k, storage, rows, jobRow, log, exc,
                   result>>

SpecBatches == InitBatches /\ [][CreateBatches]_vars

(***************************************************************************)
(* Lines 318-355 of _decompose_knowledge (normalization, validation,       *)
(* metadata) applied to two families of replies: up to three nodes at      *)
(* depth 0 joined by at most MaxEdges requires edges to any target, and    *)
(* two nodes of any depth joined by at most MaxTypedEdges prerequisites of *)
(* any shape; and two nodes joined by at most MaxRatioEdges edges of any    *)
(* relationship; and replies that repeat an id.  A validation that raises  *)
(* is kept as                                                              *)
(* knowledge_dag.metadata.validation.raised.                               *)
(***************************************************************************)
InitGraphs ==
    /\ pc = "validate"
    /\ session_materials = << >>
    /\ batch_size = MaxBatchSize
    /\ materials = << >>
    /\ batches = << >>
    /\ \/ \E n \in 1..Len(NodeIds), mode \in LabelModes, m \in 0..MaxEdges :
            \E el \in [1..m -> (1..n) \X StructPrereqs] :
                reply = MakeGraph(n, mode, [x \in 1..n |-> 0], el)
       \/ \E mode \in {"name", "none"}, depths \in [1..2 -> 0..MaxDepth],
             m \in 0..MaxTypedEdges :
            \E el \in [1..m -> (1..2) \X TypedPrereqs] :
                reply = MakeGraph(2, mode, depths, el)
       \/ \E m \in 0..MaxRatioEdges :
            \E rels \in [1..m -> RatioRelTypes] : reply = RatioGraph(rels)
       \/ reply \in RepeatedIdReplies
    /\ storage = {}
    /\ rows = << >>
    /\ InitLocals

ValidateReply ==
    /\ pc = "validate"
    /\ \E gen \in [MissingIds(reply) -> GeneratedIds] :
            knowledge_dag' = DagOf(EnhanceNodes(reply, gen))
    /\ pc' = "validated"
    /\ UNCHANGED <<session_materials, batch_size, materials, batches, i, batch_summaries, combined_len,
                   meta_summary, reply, document, k, storage, rows, jobRow, log, exc,
                   result>>

\* A normalized prerequisite handed to _normalize_prerequisites again: an
\* object with exactly the keys node_id, relationship and reasoning.
AsInput(p) == RawDict(p.node_id, Absent, p.relationship, p.reasoning)

NormalizeAgain ==
    /\ pc = "validated"
    /\ knowledge_dag' =
          DagOf([x \in DOMAIN knowledge_dag.nodes |->
                    [knowledge_dag.nodes[x] EXCEPT !.prerequisites =
                        normalize_prerequisites([y \in DOMAIN @ |-> AsInput(@[y])])]])
    /\ pc' = "renormalized"
    /\ UNCHANGED <<session_materials, batch_size, materials, batches, i, batch_summaries, combined_len,
                   meta_summary, reply, document, k, storage, rows, jobRow, log, exc,
                   result>>

SpecGraphs == InitGraphs /\ [][ValidateReply \/ NormalizeAgain]_vars

(***************************************************************************)
(* Two runs of create_learning_path on one pipeline object, for different  *)
(* sessions and different job ids, their steps interleaved in any order.   *)
(* Every local of create_learning_path is kept per run (a function of the  *)
(* run); the job table, the bucket and the relational tables are shared.   *)
(* Run r has job id JobOf(r), storage path PathOf(r) and draws the         *)
(* learning_path_id IdOf(r).  The path of run 1 may hold the document of   *)
(* an earlier run of its session.                                          *)
(***************************************************************************)
Runs == {1, 2}
JobOf(r) == r
IdOf(r) == r
PathOfMut(r) == StoragePath

PathOf(r) == "user/session" \o ToString(r) \o "/learning_path.json"

ConcurrentReply ==
    MakeGraph(1, "name", <<0>>, <<<<1, RawDict("B", Absent, "related", "why")>>>>)

InitConcurrent ==
    /\ pc = [r \in Runs |-> "fetch"]
    /\ session_materials = [r \in Runs |-> [x \in 1..(3 - r) |-> 10 * r + x]]
    /\ batch_size = 1
    /\ materials = [r \in Runs |-> << >>]
    /\ batches = [r \in Runs |-> << >>]
    /\ i = [r \in Runs |-> 0]
    /\ batch_summaries = [r \in Runs |-> << >>]
    /\ combined_len = [r \in Runs |-> 0]
    /\ meta_summary = [r \in Runs |-> ""]
    /\ reply = [r \in Runs |-> ConcurrentReply]
    /\ knowledge_dag = [r \in Runs |-> NoDag]
    /\ document = [r \in Runs |-> NoDocument]
    /\ k = [r \in Runs |-> 0]
    /\ storage \in {{}, {[path |-> PathOf(1), learning_path_id |-> 0]}}
    /\ rows = << >>
    /\ jobRow = [j \in {JobOf(r) : r \in Runs} |->
                    [status |-> "pending", progress |-> NoProgress,
                     error_message |-> Absent, completed_at |-> FALSE]]
    /\ log = [r \in Runs |-> << >>]
    /\ exc = [r \in Runs |-> Absent]
    /\ result = [r \in Runs |-> NoResult]

\* Run r moves to next after a collaborator call that returned.
Returned(r, next, call) ==
    /\ pc' = [pc EXCEPT ![r] = next]
    /\ log' = [log EXCEPT ![r] = Append(@, call)]
    /\ exc' = exc

\* A collaborator call of run r raised: the handler of run r is next.
Raised(r, call, m) ==
    /\ pc' = [pc EXCEPT ![r] = "except"]
    /\ log' = [log EXCEPT ![r] = Append(@, call)]
    /\ exc' = [exc EXCEPT ![r] = m]

\* _update_job_status(job_id, status, progress) of run r.
RunUpdatesJob(r, here, status, progress, next) ==
    /\ pc[r] = here
    /\ \/ /\ jobRow' = [jobRow EXCEPT ![JobOf(r)] = JobUpdate(@, status, progress, Absent)]
          /\ Returned(r, next, Call("job", status, TRUE, JobOf(r)))
       \/ \E m \in Messages :
            /\ Raised(r, Call("job", status, FALSE, JobOf(r)), m)
            /\ jobRow' = jobRow
    /\ UNCHANGED <<session_materials, batch_size, materials, batches, i, batch_summaries,
                   combined_len, meta_summary, reply, knowledge_dag, document, k,
                   storage, rows, result>>

\* lines 109-118
RunFetches(r) ==
    /\ pc[r] = "fetch"
    /\ \/ /\ materials' = [materials EXCEPT ![r] = session_materials[r]]
          /\ batches' = [batches EXCEPT ![r] =
                IF AfterFetch(session_materials[r]) = "done" THEN @
                ELSE create_batches(session_materials[r], batch_size)]
          /\ result' = [result EXCEPT ![r] =
                IF AfterFetch(session_materials[r]) = "done"
                THEN FailureResult(NoMaterialsError) ELSE @]
          /\ Returned(r, AfterFetch(session_materials[r]),
                      Call("fetch", "materials", TRUE, Len(session_materials[r])))
       \/ \E m \in Messages :
            /\ Raised(r, Call("fetch", "materials", FALSE, 0), m)
            /\ UNCHANGED <<materials, batches, result>>
    /\ UNCHANGED <<session_materials, batch_size, i, batch_summaries, combined_len,
                   meta_summary, reply, knowledge_dag, document, k, storage, rows, jobRow>>

\* lines 127-131
RunProcessesBatch(r) ==
    /\ pc[r] = "process_batch"
    /\ \/ /\ batch_summaries' = [batch_summaries EXCEPT ![r] = Append(@,
                [batch_index |-> i[r], material_ids |-> batches[r][i[r] + 1]])]
          /\ Returned(r, "status_batch_done", Call("oracle", "batch", TRUE, i[r]))
       \/ \E m \in Messages, what \in {"batch", "batch_parse"} :
            /\ Raised(r, Call("oracle", what, FALSE, i[r]), m)
            /\ batch_summaries' = batch_summaries
    /\ UNCHANGED <<session_materials, batch_size, materials, batches, i, combined_len,
                   meta_summary, reply, knowledge_dag, document, k, storage, rows,
                   jobRow, result>>

\* line 140
RunSleeps(r) ==
    /\ pc[r] = "sleep"
    /\ i' = [i EXCEPT ![r] = @ + 1]
    /\ Returned(r, "process_batch", Call("sleep", "rate_limit", TRUE, i[r]))
    /\ UNCHANGED <<session_materials, batch_size, materials, batches, batch_summaries,
                   combined_len, meta_summary, reply, knowledge_dag, document, k,
                   storage, rows, jobRow, result>>

\* line 144
RunCreatesMetaSummary(r) ==
    /\ pc[r] = "meta_summary"
    /\ \E n \in LenChoices :
        /\ combined_len' = [combined_len EXCEPT ![r] = n]
        /\ IF ShouldCompress(n)
           THEN \E success \in BOOLEAN :
                    /\ log' = [log EXCEPT ![r] =
                                  Append(@, Call("compress", "combined", success, n))]
                    /\ meta_summary' = [meta_summary EXCEPT ![r] =
                                  IF success THEN "compressed" ELSE "combined"]
           ELSE /\ log' = log
                /\ meta_summary' = [meta_summary EXCEPT ![r] = "combined"]
    /\ pc' = [pc EXCEPT ![r] = "status_decomposing"]
    /\ UNCHANGED <<session_materials, batch_size, materials, batches, i, batch_summaries,
                   reply, knowledge_dag, document, k, storage, rows, jobRow, exc, result>>

\* line 148
RunDecomposes(r) ==
    /\ pc[r] = "decompose"
    /\ \/ \E gen \in [MissingIds(reply[r]) -> GeneratedIds] :
            LET dag == DagOf(EnhanceNodes(reply[r], gen))
            IN  IF dag.metadata.validation.raised
                THEN /\ Raised(r, Call("oracle", "decompose", TRUE, Len(reply[r])),
                               KeyErrorLabel)
                     /\ knowledge_dag' = knowledge_dag
                ELSE /\ knowledge_dag' = [knowledge_dag EXCEPT ![r] = dag]
                     /\ Returned(r, "status_storing",
                                 Call("oracle", "decompose", TRUE, Len(reply[r])))
       \/ \E m \in Messages, what \in {"decompose", "decompose_parse"} :
            /\ Raised(r, Call("oracle", what, FALSE, 0), m)
            /\ knowledge_dag' = knowledge_dag
    /\ UNCHANGED <<session_materials, batch_size, materials, batches, i, batch_summaries,
                   combined_len, meta_summary, reply, document, k, storage, rows,
                   jobRow, result>>

\* _store_results of run r: lines 486-527.
ObjectOf(r) == [path |-> PathOf(r), learning_path_id |-> IdOf(r)]
PathTakenFor(r) == \E o \in storage : o.path = PathOf(r)
RowOf(r, table, id, source, target) ==
    [Row(table, id, source, target) EXCEPT !.learning_path_id = IdOf(r)]
SuccessResultOf(r) ==
    [SuccessResult(knowledge_dag[r]) EXCEPT !.learning_path_id = IdOf(r),
                                            !.storage_path = PathOf(r)]

RunUploads(r) ==
    /\ pc[r] = "upload"
    /\ document' = [document EXCEPT ![r] =
          [BuildDocument(knowledge_dag[r], batch_summaries[r])
              EXCEPT !.learning_path_id = IdOf(r)]]
    /\ \/ /\ PathTakenFor(r)
          /\ Returned(r, "remove", Call("upload", "already exists", FALSE, PathOf(r)))
          /\ storage' = storage
       \/ /\ ~PathTakenFor(r)
          /\ Returned(r, "insert_path", Call("upload", "stored", TRUE, PathOf(r)))
          /\ storage' = storage \cup {ObjectOf(r)}
       \/ \E m \in Messages :
            /\ Raised(r, Call("upload", "error", FALSE, PathOf(r)), m)
            /\ storage' = storage
    /\ UNCHANGED <<session_materials, batch_size, materials, batches, i, batch_summaries,
                   combined_len, meta_summary, reply, knowledge_dag, k, rows, jobRow,
                   result>>

RunRemoves(r) ==
    /\ pc[r] = "remove"
    /\ \/ /\ storage' = {o \in storage : o.path # PathOf(r)}
          /\ Returned(r, "reupload", Call("remove", "removed", TRUE, PathOf(r)))
       \/ \E m \in Messages :
            /\ Raised(r, Call("remove", "error", FALSE, PathOf(r)), m)
            /\ storage' = storage
    /\ UNCHANGED <<session_materials, batch_size, materials, batches, i, batch_summaries,
                   combined_len, meta_summary, reply, knowledge_dag, document, k, rows,
                   jobRow, result>>

\* The second upload fails like the first when the path was taken again.
RunUploadsAgain(r) ==
    /\ pc[r] = "reupload"
    /\ \/ /\ ~PathTakenFor(r)
          /\ storage' = storage \cup {ObjectOf(r)}
          /\ Returned(r, "insert_path", Call("upload", "stored", TRUE, PathOf(r)))
       \/ \E m \in Messages :
            /\ Raised(r, Call("upload", "error", FALSE, PathOf(r)), m)
            /\ storage' = storage
    /\ UNCHANGED <<session_materials, batch_size, materials, batches, i, batch_summaries,
                   combined_len, meta_summary, reply, knowledge_dag, document, k, rows,
                   jobRow, result>>

\* lines 530-571: the inserts of run r, one row per step, then the result.
RunInserts(r) ==
    /\ pc[r] \in {"insert_path", "insert_nodes", "insert_edges"}
    /\ LET doc == document[r]
           table == CASE pc[r] = "insert_path" -> "learning_paths"
                      [] pc[r] = "insert_nodes" -> "knowledge_nodes"
                      [] OTHER -> "knowledge_prerequisites"
           count == CASE pc[r] = "insert_path" -> 1
                      [] pc[r] = "insert_nodes" -> Len(doc.nodes)
                      [] OTHER -> Len(doc.edges)
           stage == CASE pc[r] = "insert_path" -> "path"
                      [] pc[r] = "insert_nodes" -> "nodes"
                      [] OTHER -> "edges"
           n == IF pc[r] = "insert_path" THEN 1 ELSE k[r]
           row == CASE pc[r] = "insert_path" -> RowOf(r, table, "", "", "")
                    [] pc[r] = "insert_nodes" -> RowOf(r, table, doc.nodes[n].id, "", "")
                    [] OTHER -> RowOf(r, table, "", doc.edges[n].source, doc.edges[n].target)
           next == IF n < count THEN pc[r] ELSE AfterInserts(doc, stage)
       IN  \/ /\ rows' = Append(rows, row)
              /\ k' = [k EXCEPT ![r] = IF n < count THEN n + 1 ELSE 1]
              /\ result' = [result EXCEPT ![r] =
                    IF next = "status_completed" THEN SuccessResultOf(r) ELSE @]
              /\ Returned(r, next, Call("insert", table, TRUE, n))
           \/ \E m \in Messages :
                /\ Raised(r, Call("insert", table, FALSE, n), m)
                /\ UNCHANGED <<rows, k, result>>
    /\ UNCHANGED <<session_materials, batch_size, materials, batches, i, batch_summaries,
                   combined_len, meta_summary, reply, knowledge_dag, document, storage,
                   jobRow>>

\* line 159
RunReturns(r) ==
    /\ pc[r] = "return"
    /\ result' = [result EXCEPT ![r] = [@ EXCEPT !.returned = TRUE]]
    /\ pc' = [pc EXCEPT ![r] = "done"]
    /\ UNCHANGED <<session_materials, batch_size, materials, batches, i, batch_summaries,
                   combined_len, meta_summary, reply, knowledge_dag, document, k,
                   storage, rows, jobRow, log, exc>>

\* lines 161-165
RunHandlesException(r) ==
    /\ pc[r] = "except"
    /\ \/ /\ jobRow' = [jobRow EXCEPT ![JobOf(r)] = JobUpdate(@, "failed", NoProgress, exc[r])]
          /\ log' = [log EXCEPT ![r] = Append(@, Call("job", "failed", TRUE, JobOf(r)))]
          /\ result' = [result EXCEPT ![r] = FailureResult(exc[r])]
       \/ \E m \in Messages :
            /\ jobRow' = jobRow
            /\ log' = [log EXCEPT ![r] = Append(@, Call("job", "failed", FALSE, JobOf(r)))]
            /\ result' = [result EXCEPT ![r] = [NoResult EXCEPT !.escaped = TRUE, !.error = m]]
    /\ pc' = [pc EXCEPT ![r] = "done"]
    /\ UNCHANGED <<session_materials, batch_size, materials, batches, i, batch_summaries,
                   combined_len, meta_summary, reply, knowledge_dag, document, k,
                   storage, rows, exc>>

\* One step of run r.
RunStep(r) ==
    \/ RunFetches(r)
    \/ RunUpdatesJob(r, "status_batch_processing", "batch_processing",
                     Progress(0, Len(batches[r])), LoopStart(Len(batches[r])))
    \/ RunProcessesBatch(r)
    \/ RunUpdatesJob(r, "status_batch_done", "batch_processing",
                     Progress(i[r] + 1, Len(batches[r])), AfterBatch(i[r], Len(batches[r])))
    \/ RunSleeps(r)
    \/ RunUpdatesJob(r, "status_summarizing", "summarizing", NoProgress, "meta_summary")
    \/ RunCreatesMetaSummary(r)
    \/ RunUpdatesJob(r, "status_decomposing", "decomposing", NoProgress, "decompose")
    \/ RunDecomposes(r)
    \/ RunUpdatesJob(r, "status_storing", "storing", NoProgress, "upload")
    \/ RunUploads(r)
    \/ RunRemoves(r)
    \/ RunUploadsAgain(r)
    \/ RunInserts(r)
    \/ RunUpdatesJob(r, "status_completed", "completed", NoProgress, "return")
    \/ RunReturns(r)
    \/ RunHandlesException(r)

NextConcurrent == \E r \in Runs : RunStep(r)

SpecConcurrent == InitConcurrent /\ [][NextConcurrent]_vars

(***************************************************************************)
(* Reading the log.                                                        *)
(***************************************************************************)
IsJobCall(c) == c.op = "job"
JobCalls == SelectSeq(log, IsJobCall)
Last(s) == s[Len(s)]
Called(op, what, ok) == \E x \in DOMAIN log :
    log[x].op = op /\ log[x].what = what /\ log[x].ok = ok
CountCalls(op, what) ==
    Cardinality({x \in DOMAIN log : log[x].op = op /\ log[x].what = what})
AllCallsOk == \A x \in DOMAIN log : log[x].ok
InitialJobRow ==
    [status |-> "pending", progress |-> NoProgress,
     error_message |-> Absent, completed_at |-> FALSE]

(***************************************************************************)
(* C1: the statuses passed to _update_job_status, in the order of the      *)
(* calls, run through batch_processing (one or more times), summarizing,   *)
(* decomposing, storing, completed, none skipped and none out of order;    *)
(* the only other status is failed, which follows any prefix of that       *)
(* sequence and is the last one.                                           *)
(***************************************************************************)
StatusOrder == <<"batch_processing", "summarizing", "decomposing", "storing", "completed">>
StatusRank(st) == CHOOSE r \in DOMAIN StatusOrder : StatusOrder[r] = st
LegalStatusStep(a, b) ==
    /\ a # "failed"
    /\ \/ b = "failed"
       \/ b = "batch_processing" /\ a = "batch_processing"
       \/ b # "failed" /\ StatusRank(b) = StatusRank(a) + 1

C1_StatusOrder ==
    LET js == JobCalls
    IN  /\ \A x \in DOMAIN js : js[x].what \in Range(StatusOrder) \cup {"failed"}
        /\ js # << >> => js[1].what \in {"batch_processing", "failed"}
        /\ \A x \in 1..(Len(js) - 1) : LegalStatusStep(js[x].what, js[x + 1].what)
        /\ materials # << >> /\ pc \notin {"status_batch_processing", "except", "done"}
              => js # << >> /\ js[1].what = "batch_processing"

C1_Witness ==
    /\ pc = "done"
    /\ result.returned /\ result.success
    /\ Len(batches) >= 2
    /\ Len(JobCalls) = Len(batches) + 5
    /\ Last(JobCalls).what = "completed"

(***************************************************************************)
(* C2: when the decomposition oracle call raises after every batch call    *)
(* succeeded, create_learning_path returns a result with success false     *)
(* whose error is the exception's message, the job row ends failed, and    *)
(* storing and completed are never written.                                *)
(***************************************************************************)
DecompositionCallRaised == Called("oracle", "decompose", FALSE)

C2_DecompositionFailure ==
    pc = "done" /\ DecompositionCallRaised
        => /\ result.returned /\ ~result.success /\ result.error = exc
           /\ jobRow.status = "failed"
           /\ Last(JobCalls).what = "failed" /\ Last(JobCalls).ok
           /\ \A x \in DOMAIN JobCalls : JobCalls[x].what \notin {"storing", "completed"}

(***************************************************************************)
(* C3: whatever an inner stage or collaborator raises, the job-status      *)
(* update included, create_learning_path returns a result with success     *)
(* false after a job-status update to failed; no exception reaches the     *)
(* caller.                                                                 *)
(***************************************************************************)
C3_NoExceptionEscapes ==
    pc = "done" /\ exc # Absent
        => /\ ~result.escaped
           /\ result.returned /\ ~result.success
           /\ jobRow.status = "failed"

(***************************************************************************)
(* C4: when the fetch returns no materials the run ends with success false *)
(* and an error, having called no collaborator but the fetch: no oracle,   *)
(* no compression, no storage, no insert, no job-status update.            *)
(***************************************************************************)
FetchedNothing == pc # "fetch" /\ materials = << >> /\ Called("fetch", "materials", TRUE)

C4_NoMaterials ==
    FetchedNothing
        => /\ pc = "done"
           /\ result.returned /\ ~result.success /\ result.error = NoMaterialsError
           /\ log = <<Call("fetch", "materials", TRUE, 0)>>
           /\ jobRow = InitialJobRow
           /\ \A x \in DOMAIN rows : rows[x].learning_path_id # 1
           /\ document = NoDocument

C4_Witness == FetchedNothing /\ pc = "done" /\ result.returned

(***************************************************************************)
(* Reading a graph, independently of the validator.                        *)
(***************************************************************************)
EdgesOf(nodes) ==
    UNION {{<<x, y>> : y \in DOMAIN nodes[x].prerequisites} : x \in DOMAIN nodes}
EdgeAt(nodes, e) == nodes[e[1]].prerequisites[e[2]]
IdsOf(nodes) == {nodes[x].id : x \in DOMAIN nodes}
UniqueIds(nodes) == \A x, y \in DOMAIN nodes : nodes[x].id = nodes[y].id => x = y
NodeWithId(nodes, id) == nodes[CHOOSE x \in DOMAIN nodes : nodes[x].id = id]
Labelled(nodes) == \A x \in DOMAIN nodes : nodes[x].label # Absent
TypedEdges(nodes, r) == {e \in EdgesOf(nodes) : EdgeAt(nodes, e).relationship = r}
DanglingEdges(nodes) == {e \in EdgesOf(nodes) : EdgeAt(nodes, e).node_id \notin IdsOf(nodes)}
DepthViolations(nodes) ==
    {e \in EdgesOf(nodes) :
        /\ EdgeAt(nodes, e).node_id \in IdsOf(nodes)
        /\ EdgeAt(nodes, e).relationship = "requires"
        /\ DepthOf(NodeWithId(nodes, EdgeAt(nodes, e).node_id)) >= DepthOf(nodes[e[1]])}
UnreasonedEdges(nodes) ==
    {e \in TypedEdges(nodes, "requires") : EdgeAt(nodes, e).reasoning \in {"", NoReasoning}}

\* The nodes of S that list a prerequisite in S; repeated until nothing changes,
\* what is left is empty exactly when the graph has no cycle.
RECURSIVE Peel(_, _)
Peel(nodes, S) ==
    LET rest == {x \in S : \E y \in DOMAIN nodes[x].prerequisites :
                    nodes[x].prerequisites[y].node_id \in {nodes[z].id : z \in S}}
    IN  IF rest = S THEN S ELSE Peel(nodes, rest)
Acyclic(nodes) == Peel(nodes, DOMAIN nodes) = {}

WarningsOfKind(v, kind) ==
    LET Test(w) == w.kind = kind IN SelectSeq(v.warnings, Test)
Occurrences(ws, w) == Cardinality({x \in DOMAIN ws : ws[x] = w})

(***************************************************************************)
(* C5: graph-quality violations are never fatal: whatever nodes the parsed *)
(* reply holds, validation returns and the run goes on to storing.         *)
(***************************************************************************)
C5_QualityNeverFatal ==
    log # << >> /\ Last(log).op = "oracle" /\ Last(log).what = "decompose" /\ Last(log).ok
        => /\ pc = "status_storing"
           /\ exc = Absent
           /\ ~knowledge_dag.metadata.validation.raised

(***************************************************************************)
(* C6: the end-to-end scenario.  12 materials and batch size 5 give three  *)
(* batch oracle calls on batches of 5, 5 and 2 materials; a meta-summary   *)
(* under 10,000 characters is not compressed; and when nothing raises and  *)
(* the reply has 45 nodes, 60% of its edges typed requires, no cycle, no   *)
(* dangling reference and no depth violation, the result has success true, *)
(* total_nodes 45, relationship_distribution["requires"] equal to the      *)
(* number of requires edges and no validation warning.                     *)
(* As amended: the reply also has at most 20% of its edges typed related   *)
(* and a reasoning on every requires edge.                                 *)
(***************************************************************************)
EndToEndBatching ==
    /\ pc \notin {"fetch", "except", "done"} =>
          /\ Len(batches) = 3
          /\ [x \in 1..3 |-> Len(batches[x])] = <<5, 5, 2>>
    /\ pc \in {"status_summarizing", "meta_summary", "status_decomposing", "decompose"} =>
          /\ CountCalls("oracle", "batch") = 3
          /\ \A x \in 1..3 : batch_summaries[x].material_ids = batches[x]
    /\ pc \in {"status_decomposing", "decompose"} /\ combined_len < CompressThreshold =>
          CountCalls("compress", "combined") = 0

EndToEndReply(nodes) ==
    /\ Len(nodes) = 45
    /\ 10 * Cardinality(TypedEdges(nodes, "requires")) = 6 * Cardinality(EdgesOf(nodes))
    /\ DanglingEdges(nodes) = {}
    /\ DepthViolations(nodes) = {}
    /\ Acyclic(nodes)

EndToEndResult ==
    /\ result.returned /\ result.success
    /\ result.total_nodes = 45
    /\ result.relationship_distribution["requires"]
          = Cardinality(TypedEdges(knowledge_dag.nodes, "requires"))
    /\ document.metadata.validation.warnings = << >>

C6_EndToEndAsClaimed ==
    /\ EndToEndBatching
    /\ pc = "done" /\ exc = Absent /\ EndToEndReply(knowledge_dag.nodes) => EndToEndResult

C6_EndToEnd ==
    /\ EndToEndBatching
    /\ (/\ pc = "done" /\ exc = Absent
        /\ EndToEndReply(knowledge_dag.nodes)
        /\ 5 * Cardinality(TypedEdges(knowledge_dag.nodes, "related"))
              <= Cardinality(EdgesOf(knowledge_dag.nodes))
        /\ UnreasonedEdges(knowledge_dag.nodes) = {})
       => EndToEndResult

C6_Witness ==
    /\ pc = "done" /\ exc = Absent
    /\ Len(materials) = 12 /\ batch_size = 5
    /\ CountCalls("oracle", "batch") = 3 /\ CountCalls("compress", "combined") = 0
    /\ EndToEndReply(knowledge_dag.nodes)
    /\ 5 * Cardinality(TypedEdges(knowledge_dag.nodes, "related"))
          = Cardinality(EdgesOf(knowledge_dag.nodes))
    /\ EndToEndResult

(***************************************************************************)
(* C7: for a list of N >= 0 materials and batch size B >= 1,               *)
(* _create_batches gives ceil(N/B) batches, each non-empty and of at most  *)
(* B materials, all but the last of exactly B, whose concatenation in      *)
(* order is the list.                                                      *)
(***************************************************************************)
RECURSIVE Flatten(_)
Flatten(ss) == IF ss = << >> THEN << >> ELSE Head(ss) \o Flatten(Tail(ss))

C7_Batches ==
    pc = "batched" =>
        /\ Len(batches) = (Len(materials) + batch_size - 1) \div batch_size
        /\ \A x \in DOMAIN batches :
              /\ Len(batches[x]) >= 1
              /\ Len(batches[x]) <= batch_size
              /\ x < Len(batches) => Len(batches[x]) = batch_size
        /\ Flatten(batches) = materials

C7_Witness ==
    /\ pc = "batched"
    /\ Len(materials) = 12 /\ batch_size = 5
    /\ Len(batches) = 3 /\ Len(batches[3]) = 2

(***************************************************************************)
(* C8: three labelled nodes where A requires B, B requires C and C         *)
(* requires A get a cycle warning that contains all three labels; the same *)
(* nodes without the edge from C to A get no cycle warning.                *)
(* As amended: the cycle warning contains the three node ids.              *)
(***************************************************************************)
OnlyRequires(nodes, x, y) ==
    /\ Len(nodes[x].prerequisites) = 1
    /\ nodes[x].prerequisites[1].node_id = nodes[y].id
    /\ nodes[x].prerequisites[1].relationship = "requires"

ThreeCycle(nodes) ==
    /\ Len(nodes) = 3 /\ UniqueIds(nodes)
    /\ \E a, b, c \in 1..3 :
          /\ {a, b, c} = 1..3
          /\ OnlyRequires(nodes, a, b) /\ OnlyRequires(nodes, b, c)
          /\ OnlyRequires(nodes, c, a)

ThreeChain(nodes) ==
    /\ Len(nodes) = 3 /\ UniqueIds(nodes)
    /\ \E a, b, c \in 1..3 :
          /\ {a, b, c} = 1..3
          /\ OnlyRequires(nodes, a, b) /\ OnlyRequires(nodes, b, c)
          /\ nodes[c].prerequisites = << >>

CycleMentions(w, name) == \E x \in DOMAIN w.cycles : name \in Range(w.cycles[x])

ValidatedLabelled ==
    pc = "validated" /\ Labelled(knowledge_dag.nodes)

C8_CycleWarningNamesLabels ==
    LET nodes == knowledge_dag.nodes
        v == knowledge_dag.metadata.validation
        cw == WarningsOfKind(v, "cycle")
    IN  ValidatedLabelled =>
          /\ ThreeCycle(nodes) =>
                /\ ~v.raised
                /\ \E x \in DOMAIN cw : \A y \in 1..3 : CycleMentions(cw[x], nodes[y].label)
          /\ ThreeChain(nodes) => ~v.raised /\ cw = << >>

C8_CycleWarningNamesIds ==
    LET nodes == knowledge_dag.nodes
        v == knowledge_dag.metadata.validation
        cw == WarningsOfKind(v, "cycle")
    IN  ValidatedLabelled =>
          /\ ThreeCycle(nodes) =>
                /\ ~v.raised
                /\ \E x \in DOMAIN cw : \A y \in 1..3 : CycleMentions(cw[x], nodes[y].id)
          /\ ThreeChain(nodes) => ~v.raised /\ cw = << >>

C8_Witness ==
    /\ ValidatedLabelled
    /\ ThreeCycle(knowledge_dag.nodes)
    /\ knowledge_dag.nodes[1].label # knowledge_dag.nodes[1].id
    /\ Len(WarningsOfKind(knowledge_dag.metadata.validation, "cycle")) = 1

(***************************************************************************)
(* C9: among the prerequisite edges whose prerequisite node exists, the    *)
(* depth-violation warnings are one per edge typed requires with           *)
(* depth(prerequisite) >= depth(dependent), each naming both labels and    *)
(* both depths, and no other: builds_on and related edges, and requires    *)
(* edges with depth(prerequisite) < depth(dependent), produce none.        *)
(***************************************************************************)
DepthWarningFor(nodes, e) ==
    Warning("depth",
            <<nodes[e[1]].label, NodeWithId(nodes, EdgeAt(nodes, e).node_id).label>>,
            <<DepthOf(nodes[e[1]]), DepthOf(NodeWithId(nodes, EdgeAt(nodes, e).node_id))>>,
            << >>)

DanglingWarningFor(nodes, e) ==
    Warning("dangling", <<nodes[e[1]].id, EdgeAt(nodes, e).node_id>>, << >>, << >>)

C10_DanglingWarnings ==
    LET nodes == knowledge_dag.nodes
        v == knowledge_dag.metadata.validation
        dw == WarningsOfKind(v, "dangling")
        dangling == DanglingEdges(nodes)
    IN  ValidatedLabelled /\ UniqueIds(nodes) =>
          /\ ~v.raised
          /\ Len(dw) = Cardinality(dangling)
          /\ \A e \in dangling :
                Occurrences(dw, DanglingWarningFor(nodes, e))
                   = Cardinality({f \in dangling :
                        DanglingWarningFor(nodes, f) = DanglingWarningFor(nodes, e)})

(***************************************************************************)
(* C11: with R requires edges, L related edges and T > 0 edges in all,     *)
(* validation gives the low-requires warning exactly when 2*R < T and the  *)
(* high-related warning exactly when 5*L > T (so at 40% requires it warns, *)
(* at exactly 50% it does not); with no edge it gives neither.             *)
(***************************************************************************)
C11_RatioWarnings ==
    LET nodes == knowledge_dag.nodes
        v == knowledge_dag.metadata.validation
        T == Cardinality(EdgesOf(nodes))
        R == Cardinality(TypedEdges(nodes, "requires"))
        L == Cardinality(TypedEdges(nodes, "related"))
        low == WarningsOfKind(v, "low_requires")
        high == WarningsOfKind(v, "high_related")
    IN  pc = "validated" /\ ~v.raised =>
          /\ Len(low) <= 1 /\ Len(high) <= 1
          /\ (Len(low) = 1) <=> (T > 0 /\ 2 * R < T)
          /\ (Len(high) = 1) <=> (T > 0 /\ 5 * L > T)
          /\ T = 0 => low = << >> /\ high = << >>

C11_Witness ==
    LET nodes == knowledge_dag.nodes
        v == knowledge_dag.metadata.validation
    IN  /\ pc = "validated" /\ ~v.raised
        /\ Cardinality(EdgesOf(nodes)) = 5
        /\ Cardinality(TypedEdges(nodes, "requires")) = 2
        /\ Cardinality(TypedEdges(nodes, "related")) = 1
        /\ Len(WarningsOfKind(v, "low_requires")) = 1
        /\ WarningsOfKind(v, "high_related") = << >>

(***************************************************************************)
(* C12: _normalize_prerequisites is idempotent: for every list of bare id  *)
(* strings and prerequisite objects, normalizing the normalized list gives *)
(* the normalized list.                                                    *)
(***************************************************************************)
C12_NormalizeIdempotent ==
    pc = "renormalized" =>
        \A x \in DOMAIN reply :
            knowledge_dag.nodes[x].prerequisites
                = normalize_prerequisites(reply[x].prerequisites)

C12_Witness ==
    /\ pc = "renormalized"
    /\ \E x \in DOMAIN reply :
          /\ RawStr("B") \in Range(reply[x].prerequisites)
          /\ RawDict(Absent, "A", Absent, Absent) \in Range(reply[x].prerequisites)
          /\ Len(knowledge_dag.nodes[x].prerequisites) = 2
          /\ knowledge_dag.nodes[x].prerequisites[1].node_id \in {"A", "B"}

(***************************************************************************)
(* C13: a run never updates in place: what an earlier run for the same     *)
(* user and session wrote is neither deleted, replaced nor modified, so    *)
(* the earlier run's learning_path_id still identifies its document.       *)
(* As amended: a run only inserts rows, under its own learning_path_id,    *)
(* and leaves every earlier row as it was; but the storage path is the     *)
(* same for every run of a user and session, and a run that finds an       *)
(* object there removes it and uploads its own, so that the path holds one *)
(* object, after a successful run the document of that run.                *)
(***************************************************************************)
EarlierRunKept ==
    rows # << >> /\ rows[1].learning_path_id = 0
        => /\ SubSeq(rows, 1, Len(EarlierRows)) = EarlierRows
           /\ \A x \in DOMAIN rows : x > Len(EarlierRows) => rows[x].learning_path_id = 1

C13_NoUpdateInPlace ==
    /\ EarlierRunKept
    /\ rows # << >> /\ rows[1].learning_path_id = 0 => EarlierObject \in storage

C13_RowsKeptObjectReplaced ==
    /\ EarlierRunKept
    /\ rows # << >> /\ rows[1].learning_path_id = 1 =>
          \A x \in DOMAIN rows : rows[x].learning_path_id = 1
    /\ Cardinality(storage) <= 1
    /\ EarlierObject \notin storage /\ rows # << >> /\ rows[1].learning_path_id = 0 =>
          Called("remove", "removed", TRUE)
    /\ pc = "done" /\ result.returned /\ result.success => storage = {StoredObject}

C13_Witness ==
    /\ pc = "done" /\ result.returned /\ result.success
    /\ Len(rows) > Len(EarlierRows)
    /\ SubSeq(rows, 1, Len(EarlierRows)) = EarlierRows
    /\ Called("remove", "removed", TRUE)
    /\ storage = {StoredObject}

(***************************************************************************)
(* C14: two runs for different sessions and job ids, interleaved in any    *)
(* order, share no mutable state: the job row of a run, the object at its  *)
(* storage path, its rows and its result are what the run's own            *)
(* collaborator calls make them, whatever the other run does, so each run  *)
(* ends with the result and job status it would have alone.                *)
(***************************************************************************)
OkCallsOf(r, ops) ==
    LET Test(c) == c.ok /\ c.op \in ops IN SelectSeq(log[r], Test)

OwnJobRow(r) ==
    LET js == OkCallsOf(r, {"job"})
    IN  IF js = << >> THEN jobRow[JobOf(r)].status = "pending"
        ELSE /\ jobRow[JobOf(r)].status = Last(js).what
             /\ \A x \in DOMAIN js : js[x].arg = JobOf(r)

OwnObject(r) ==
    LET at == {o \in storage : o.path = PathOf(r)}
        ws == OkCallsOf(r, {"upload", "remove"})
    IN  IF ws = << >> THEN \A o \in at : o.learning_path_id = 0
        ELSE IF Last(ws).op = "upload" THEN at = {ObjectOf(r)}
        ELSE at = {}

OwnRows(r) ==
    Cardinality({x \in DOMAIN rows : rows[x].learning_path_id = IdOf(r)})
        = Len(OkCallsOf(r, {"insert"}))

OwnResult(r) ==
    pc[r] = "done" =>
        LET last == Last(log[r])
        IN  /\ last.op = "job" /\ last.what \in {"completed", "failed"}
            /\ last.what = "completed" =>
                  /\ result[r] = [SuccessResultOf(r) EXCEPT !.returned = TRUE]
                  /\ jobRow[JobOf(r)].status = "completed"
            /\ last.what = "failed" /\ last.ok =>
                  /\ result[r] = FailureResult(exc[r])
                  /\ jobRow[JobOf(r)].status = "failed"
            /\ last.what = "failed" /\ ~last.ok => result[r].escaped

C14_RunsIndependent ==
    \A r \in Runs : OwnJobRow(r) /\ OwnObject(r) /\ OwnRows(r) /\ OwnResult(r)

C14_Witness ==
    /\ \A r \in Runs : pc[r] = "done" /\ result[r].returned /\ result[r].success
    /\ jobRow[JobOf(1)].status = "completed" /\ jobRow[JobOf(2)].status = "completed"
    /\ storage = {ObjectOf(1), ObjectOf(2)}
    /\ \E x, y, z \in DOMAIN rows :
          /\ x < y /\ y < z
          /\ rows[x].learning_path_id = IdOf(1)
          /\ rows[y].learning_path_id = IdOf(2)
          /\ rows[z].learning_path_id = IdOf(1)

(***************************************************************************)
(* C15: within a run the stages follow one another and the oracle is       *)
(* called once at a time: every batch oracle call has returned before the  *)
(* meta-summary and its compression start, these have returned before the  *)
(* decomposition call starts, and this call and the validation have        *)
(* returned before anything is persisted.                                  *)
(***************************************************************************)
StageOf(c) ==
    CASE c.op = "oracle" /\ c.what \in {"batch", "batch_parse"} -> 1
      [] c.op = "compress" -> 2
      [] c.op = "oracle" /\ c.what \in {"decompose", "decompose_parse"} -> 3
      [] c.op \in {"upload", "remove", "insert"} -> 4
      [] OTHER -> 0

BatchCalls ==
    LET Test(c) == c.op = "oracle" /\ c.what \in {"batch", "batch_parse"}
    IN  SelectSeq(log, Test)

AfterBatches ==
    {"meta_summary", "status_decomposing", "decompose", "status_storing", "upload",
     "remove", "reupload", "insert_path", "insert_nodes", "insert_edges",
     "status_completed", "return"}
AfterMetaSummary == AfterBatches \ {"meta_summary"}
AfterDecomposition == AfterMetaSummary \ {"status_decomposing", "decompose"}

C15_StagesSequential ==
    /\ \A x, y \in DOMAIN log :
          x < y /\ StageOf(log[x]) # 0 /\ StageOf(log[y]) # 0
              => StageOf(log[x]) <= StageOf(log[y])
    /\ \A x \in DOMAIN BatchCalls : BatchCalls[x].arg = x - 1
    /\ pc \in AfterBatches =>
          /\ Len(BatchCalls) = Len(batches)
          /\ \A x \in DOMAIN BatchCalls : BatchCalls[x].ok
          /\ Len(batch_summaries) = Len(batches)
    /\ pc \in AfterMetaSummary => meta_summary # ""
    /\ pc \in AfterDecomposition =>
          /\ Called("oracle", "decompose", TRUE)
          /\ ~knowledge_dag.metadata.validation.raised
          /\ knowledge_dag.metadata.total_nodes = Len(reply)
    /\ pc \notin AfterDecomposition \cup {"except", "done"} =>
          \A x \in DOMAIN log : StageOf(log[x]) # 4

C15_Witness ==
    /\ pc = "done" /\ result.returned /\ result.success
    /\ Len(BatchCalls) >= 2
    /\ Called("compress", "combined", TRUE)
    /\ Called("insert", "knowledge_prerequisites", TRUE)

(***************************************************************************)
(* C16: after _decompose_knowledge has processed a reply, also one that    *)
(* omits ids or repeats an id, the ids of the nodes of the graph are       *)
(* pairwise distinct and total_nodes is the number of distinct ids.        *)
(***************************************************************************)
C16_UniqueNodeIds ==
    pc = "validated" /\ ~knowledge_dag.metadata.validation.raised =>
        /\ UniqueIds(knowledge_dag.nodes)
        /\ knowledge_dag.metadata.total_nodes = Cardinality(IdsOf(knowledge_dag.nodes))

(***************************************************************************)
(* C17: whenever a run writes the job status failed, that update puts the  *)
(* message of the caught exception into the row's error_message, also when *)
(* the message is the empty text: a failed row never keeps a missing or    *)
(* stale error_message.                                                    *)
(***************************************************************************)
C17_FailedRecordsMessage ==
    jobRow.status = "failed" =>
        /\ Last(JobCalls).what = "failed" /\ Last(JobCalls).ok
        /\ jobRow.error_message = exc

(***************************************************************************)
(* C18: when the oracle call or the JSON parse of a batch fails, the batch *)
(* is not retried, no later oracle call and no compression is made,        *)
(* nothing is written to storage or to the three tables, and the run ends  *)
(* with job status failed.                                                 *)
(***************************************************************************)
BatchFailed == \E x \in DOMAIN BatchCalls : ~BatchCalls[x].ok

BatchFailureStops ==
    /\ ~Last(BatchCalls).ok
    /\ \A x, y \in DOMAIN BatchCalls : BatchCalls[x].arg = BatchCalls[y].arg => x = y
    /\ \A x \in DOMAIN log : StageOf(log[x]) \in {0, 1}
    /\ StoredObject \notin storage
    /\ \A x \in DOMAIN rows : rows[x].learning_path_id # 1

C18_BatchFailureIsFatal ==
    BatchFailed =>
        /\ BatchFailureStops
        /\ pc \in {"except", "done"}
        /\ pc = "done" => jobRow.status = "failed"

(***************************************************************************)
(* C19: a run with T >= 1 batches makes exactly T-1 rate-limit delays,     *)
(* each right after the oracle call and the progress update of batch i and *)
(* right before the oracle call of batch i+1, so that two batch oracle     *)
(* calls are always a delay apart; there is no delay after the last batch  *)
(* or before the decomposition call.                                       *)
(***************************************************************************)
Sleeps == {x \in DOMAIN log : log[x].op = "sleep"}

IsBatchCall(c) == c.op = "oracle" /\ c.what \in {"batch", "batch_parse"}

C19_RateLimitDelays ==
    /\ \A x \in Sleeps :
          /\ x >= 3
          /\ log[x - 2] = Call("oracle", "batch", TRUE, log[x].arg)
          /\ log[x - 1] = Call("job", "batch_processing", TRUE, log[x].arg + 1)
          /\ log[x].arg < Len(batches) - 1
          /\ x < Len(log) => IsBatchCall(log[x + 1]) /\ log[x + 1].arg = log[x].arg + 1
    /\ \A x \in DOMAIN log :
          IsBatchCall(log[x]) /\ log[x].arg >= 1 => (x - 1) \in Sleeps
    /\ \A x \in DOMAIN BatchCalls : BatchCalls[x].arg = x - 1
    /\ pc \in AfterBatches \cup {"status_summarizing"} =>
          /\ Len(batches) >= 1
          /\ Cardinality(Sleeps) = Len(batches) - 1
    /\ \A x \in DOMAIN log :
          log[x].op = "oracle" /\ log[x].what \in {"decompose", "decompose_parse"}
              => (x - 1) \notin Sleeps /\ Cardinality(Sleeps) = Len(batches) - 1

C19_Witness ==
    /\ pc = "status_storing"
    /\ Len(batches) = 3
    /\ Cardinality(Sleeps) = 2
    /\ Called("oracle", "decompose", TRUE)

(***************************************************************************)
(* C20: _create_meta_summary calls the compression adapter exactly when    *)
(* the serialized batch summaries are longer than 10,000 characters; it    *)
(* returns the compressed text only when the adapter was called and        *)
(* reported success, and otherwise (at most 10,000 characters, or a        *)
(* failure of the adapter) the serialization itself; in every case the run *)
(* goes on to decomposition.                                               *)
(***************************************************************************)
CompressCalls ==
    LET Test(c) == c.op = "compress" IN SelectSeq(log, Test)

C20_MetaSummaryCompression ==
    /\ pc \in AfterMetaSummary =>
          /\ Len(CompressCalls) = IF combined_len > 10000 THEN 1 ELSE 0
          /\ meta_summary = IF combined_len > 10000 /\ CompressCalls[1].ok
                            THEN "compressed" ELSE "combined"
    /\ pc \notin AfterMetaSummary \cup {"except", "done"} => CompressCalls = << >>
    /\ log # << >> /\ Last(log).op = "compress" =>
          pc = "status_decomposing" /\ exc = Absent

C20_Witness ==
    /\ pc = "status_storing"
    /\ combined_len = 10001
    /\ Called("compress", "combined", FALSE)
    /\ meta_summary = "combined"
    /\ Called("oracle", "decompose", TRUE)

(***************************************************************************)
(* C21: an upload that fails with an already-exists conflict is retried    *)
(* once, as remove then upload, so a run makes at most two upload          *)
(* attempts; a failing remove, a failing second upload and a first upload  *)
(* failing for another reason are fatal: no row is inserted into the three *)
(* tables and the run ends failed.                                         *)
(***************************************************************************)
Uploads == LET Test(c) == c.op = "upload" IN SelectSeq(log, Test)
Removes == LET Test(c) == c.op = "remove" IN SelectSeq(log, Test)
Inserts == LET Test(c) == c.op = "insert" IN SelectSeq(log, Test)

StorageFailed ==
    \/ \E x \in DOMAIN Uploads : Uploads[x].what = "error"
    \/ \E x \in DOMAIN Removes : ~Removes[x].ok

C22_RelationshipsAreTyped ==
    LET nodes == knowledge_dag.nodes
        edges == build_edges(nodes)
    IN  pc = "validated" /\ ~knowledge_dag.metadata.validation.raised =>
          /\ \A e \in EdgesOf(nodes) : EdgeAt(nodes, e).relationship \in RelTypes
          /\ \A x \in DOMAIN edges : edges[x].type \in RelTypes
          /\ DOMAIN knowledge_dag.metadata.relationship_distribution = RelTypes
          /\ DOMAIN knowledge_dag.metadata.validation.relationship_counts = RelTypes

(***************************************************************************)
(* C23: every constraint the decomposition prompt asks of the oracle (no   *)
(* cycle, between 40 and 80 nodes, more than half of the edges typed       *)
(* requires, a reasoning on every edge) is checked by the validator: a     *)
(* graph that breaks one of them gets valid false and a warning.           *)
(***************************************************************************)
BreaksPrompt(nodes) ==
    \/ Len(nodes) < 40 \/ Len(nodes) > 80
    \/ ~Acyclic(nodes)
    \/ /\ EdgesOf(nodes) # {}
       /\ 2 * Cardinality(TypedEdges(nodes, "requires")) <= Cardinality(EdgesOf(nodes))
    \/ \E e \in EdgesOf(nodes) : EdgeAt(nodes, e).reasoning \in {"", NoReasoning}

C23_PromptConstraintsChecked ==
    pc = "validated" /\ ~knowledge_dag.metadata.validation.raised
       /\ BreaksPrompt(knowledge_dag.nodes)
        => /\ ~knowledge_dag.metadata.validation.valid
           /\ knowledge_dag.metadata.validation.warnings # << >>

(***************************************************************************)
(* C24: _normalize_prerequisites maps its input one to one and in order:   *)
(* the output is as long as the input and entry y of the output comes from *)
(* entry y of the input; a bare string s becomes {s, requires, the legacy  *)
(* reasoning}; an object becomes {its node_id if present else its id, its  *)
(* relationship or requires, its reasoning or 'No reasoning provided'};    *)
(* duplicates are kept.                                                    *)
(* As amended: the output is the in-order image of those input entries     *)
(* that are strings or objects, every other entry (a number, null, a list) *)
(* being dropped, so the output is as long as the input only when the      *)
(* input holds no such entry; an object without node_id and id gets the    *)
(* node_id "", and a default applies only when the key is absent.          *)
(***************************************************************************)
IsStrOrObject(p) == p.type \in {"str", "dict"}

ImageOf(p) ==
    IF p.type = "str"
    THEN [node_id |-> p.value, relationship |-> "requires",
          reasoning |-> "Legacy prerequisite - relationship inferred"]
    ELSE [node_id |-> CASE p.node_id # Absent -> p.node_id
                        [] p.node_id = Absent /\ p.id # Absent -> p.id
                        [] OTHER -> "",
          relationship |-> IF p.relationship = Absent THEN "requires"
                           ELSE p.relationship,
          reasoning |-> IF p.reasoning = Absent THEN "No reasoning provided"
                        ELSE p.reasoning]

C24_NormalizeOneToOne ==
    pc = "validated" =>
        \A x \in DOMAIN reply :
            LET given == reply[x].prerequisites
                out == knowledge_dag.nodes[x].prerequisites
            IN  /\ Len(out) = Len(given)
                /\ \A y \in DOMAIN given : out[y] = ImageOf(given[y])

C24_NormalizeKeepsStringsAndObjects ==
    pc = "validated" =>
        \A x \in DOMAIN reply :
            LET kept == SelectSeq(reply[x].prerequisites, IsStrOrObject)
                out == knowledge_dag.nodes[x].prerequisites
            IN  /\ Len(out) = Len(kept)
                /\ \A y \in DOMAIN kept : out[y] = ImageOf(kept[y])

C24_Witness ==
    /\ pc = "validated"
    /\ \E x \in DOMAIN reply :
          /\ reply[x].prerequisites = <<RawOther, RawDict("A", Absent, "builds_on", "why")>>
          /\ Len(knowledge_dag.nodes[x].prerequisites) = 1
          /\ knowledge_dag.nodes[x].prerequisites[1].relationship = "builds_on"

(***************************************************************************)
(* C25: the progress on the job row satisfies 0 <= batches_processed <=    *)
(* total_batches at every write; total_batches is the same in every write  *)
(* of the run (the number of batches); batches_processed starts at 0 and   *)
(* grows by exactly 1 after each completed batch; and the status           *)
(* summarizing is written only after a write with batches_processed ==     *)
(* total_batches.                                                          *)
(***************************************************************************)
CompletedBatches ==
    Cardinality({x \in DOMAIN log :
        log[x].op = "oracle" /\ log[x].what = "batch" /\ log[x].ok})

ProgressInRange ==
    jobRow.progress # NoProgress =>
        /\ 0 <= jobRow.progress.batches_processed
        /\ jobRow.progress.batches_processed <= jobRow.progress.total_batches
        /\ jobRow.progress.total_batches = Len(batches)
        /\ jobRow.progress.batches_processed <= CompletedBatches
        /\ CompletedBatches <= jobRow.progress.batches_processed + 1

ProgressStep ==
    jobRow'.progress # jobRow.progress =>
        /\ Len(batches') = Len(batches)
        /\ jobRow'.progress.total_batches = Len(batches)
        /\ jobRow'.progress.batches_processed = CompletedBatches
        /\ IF jobRow.progress = NoProgress
           THEN jobRow'.progress.batches_processed = 0
           ELSE jobRow'.progress.batches_processed
                    = jobRow.progress.batches_processed + 1

SummarizingAfterLastBatch ==
    (\E x \in DOMAIN log : log[x].op = "job" /\ log[x].what = "summarizing") =>
        /\ jobRow.progress # NoProgress
        /\ jobRow.progress.batches_processed = jobRow.progress.total_batches
        /\ \E x \in DOMAIN log :
              /\ log[x] = Call("job", "batch_processing", TRUE, Len(batches))
              /\ \A y \in DOMAIN log :
                    log[y].op = "job" /\ log[y].what = "summarizing" => x < y

C25_ProgressWrites ==
    /\ [](ProgressInRange /\ SummarizingAfterLastBatch)
    /\ [][ProgressStep]_vars

C25_Witness ==
    /\ jobRow.status = "summarizing"
    /\ Len(batches) >= 2
    /\ jobRow.progress = Progress(Len(batches), Len(batches))
    /\ CompletedBatches = Len(batches)

(***************************************************************************)
(* C26: _build_edges emits exactly one edge record per prerequisite entry  *)
(* of every node, in node order then prerequisite order, with source the   *)
(* prerequisite's node_id, target the dependent node's id, type the        *)
(* entry's relationship and reasoning the entry's reasoning; so the number *)
(* of edges is the sum of the nodes' prerequisite counts, which is the sum *)
(* of the counts in metadata.relationship_distribution.                    *)
(***************************************************************************)
RECURSIVE PrerequisitesBefore(_, _)
PrerequisitesBefore(nodes, x) ==
    IF x <= 1 THEN 0
    ELSE PrerequisitesBefore(nodes, x - 1) + Len(nodes[x - 1].prerequisites)

RECURSIVE SumOfCounts(_, _)
SumOfCounts(counts, keys) ==
    IF keys = {} THEN 0
    ELSE LET key == CHOOSE key \in keys : TRUE
         IN  counts[key] + SumOfCounts(counts, keys \ {key})

C26_OneEdgePerPrerequisite ==
    LET nodes == knowledge_dag.nodes
        edges == build_edges(nodes)
        dist == knowledge_dag.metadata.relationship_distribution
    IN  pc = "validated" /\ ~knowledge_dag.metadata.validation.raised =>
          /\ Len(edges) = PrerequisitesBefore(nodes, Len(nodes) + 1)
          /\ Len(edges) = SumOfCounts(dist, DOMAIN dist)
          /\ \A x \in DOMAIN nodes : \A y \in DOMAIN nodes[x].prerequisites :
                edges[PrerequisitesBefore(nodes, x) + y]
                    = [source |-> nodes[x].prerequisites[y].node_id,
                       target |-> nodes[x].id,
                       type |-> nodes[x].prerequisites[y].relationship,
                       reasoning |-> nodes[x].prerequisites[y].reasoning]

C26_Witness ==
    LET nodes == knowledge_dag.nodes
        edges == build_edges(nodes)
    IN  /\ pc = "validated" /\ ~knowledge_dag.metadata.validation.raised
        /\ Len(nodes) = 2
        /\ Len(nodes[1].prerequisites) = 1 /\ Len(nodes[2].prerequisites) = 1
        /\ Len(edges) = 2
        /\ edges[1].type = "builds_on" /\ edges[2].type = "related"
        /\ edges[1].source = "B" /\ edges[1].target = "A"
        /\ knowledge_dag.metadata.relationship_distribution["related"] = 1

(***************************************************************************)
(* C27: _detect_cycles returns a non-empty list exactly when the directed  *)
(* graph of all prerequisite edges (every relationship type, self-loops    *)
(* and edges to absent ids included) has a directed cycle; a diamond with  *)
(* shared prerequisites yields none; and each node id is expanded (its     *)
(* prerequisites iterated) at most once per call.                          *)
(***************************************************************************)
ExpandedOnce(nodes) ==
    LET expanded == DetectState(nodes).expanded
    IN  \A x, y \in DOMAIN expanded : expanded[x] = expanded[y] => x = y

C27_CyclesDetected ==
    pc = "validated" /\ ~knowledge_dag.metadata.validation.raised =>
        /\ detect_cycles(knowledge_dag.nodes) # << >> <=> ~Acyclic(knowledge_dag.nodes)
        /\ ExpandedOnce(knowledge_dag.nodes)

(***************************************************************************)
(* C28: at every entry of the inner dfs of _detect_cycles rec_stack is the *)
(* set of the ids in path, so path.index(node_id) on a node found in       *)
(* rec_stack never fails; every cycle reported starts and ends with the    *)
(* same id and each consecutive pair (x, y) of it is a real prerequisite   *)
(* edge (y is listed as a prerequisite of x); and rec_stack is empty again *)
(* when _detect_cycles returns.                                            *)
(***************************************************************************)
Lists(nodes, a, b) ==
    \E e \in EdgesOf(nodes) : nodes[e[1]].id = a /\ EdgeAt(nodes, e).node_id = b

RealCycle(nodes, c) ==
    /\ Len(c) >= 2
    /\ c[1] = c[Len(c)]
    /\ \A x \in 1..(Len(c) - 1) : Lists(nodes, c[x], c[x + 1])

C28_RecursionStackIsPath ==
    pc = "validated" =>
        LET nodes == knowledge_dag.nodes
            st == DetectState(nodes)
        IN  /\ st.entry_ok
            /\ ~st.raised
            /\ st.rec_stack = {}
            /\ \A x \in DOMAIN st.cycles : RealCycle(nodes, st.cycles[x])

C28_Witness ==
    /\ pc = "validated"
    /\ DetectState(knowledge_dag.nodes).expanded = <<"A", "B", "C">>
    /\ DetectState(knowledge_dag.nodes).cycles = << <<"B", "C", "B">> >>

(***************************************************************************)
(* C29: the persistence writes of a run happen in a fixed order, each only *)
(* after the previous one succeeded: the upload succeeds before the        *)
(* learning_paths row is inserted, that row before any knowledge_nodes     *)
(* row, all knowledge_nodes rows before any knowledge_prerequisites row,   *)
(* and completed is written only after every knowledge_prerequisites row;  *)
(* a result with success true is returned only after completed was         *)
(* written.                                                                *)
(***************************************************************************)
OkInserts(table) ==
    Cardinality({x \in DOMAIN log : log[x] \in
        {Call("insert", table, TRUE, n) : n \in 1..MaxListLen}})

Attempted(op, what) == \E x \in DOMAIN log : log[x].op = op /\ log[x].what = what

\* Every call (op, what) of the log comes after a successful call matching Before.
OnlyAfter(op, what, Before(_)) ==
    \A y \in DOMAIN log :
        log[y].op = op /\ log[y].what = what =>
            \E x \in 1..(y - 1) : log[x].ok /\ Before(log[x])

C29_PersistenceOrder ==
    LET Stored(c) == c.op = "upload" /\ c.what = "stored"
        PathRow(c) == c.op = "insert" /\ c.what = "learning_paths"
        LastNode(c) == /\ c.op = "insert" /\ c.what = "knowledge_nodes"
                       /\ c.arg = Len(document.nodes)
        LastEdge(c) == /\ c.op = "insert" /\ c.what = "knowledge_prerequisites"
                       /\ c.arg = Len(document.edges)
    IN  /\ OnlyAfter("insert", "learning_paths", Stored)
        /\ OnlyAfter("insert", "knowledge_nodes", PathRow)
        /\ OnlyAfter("insert", "knowledge_prerequisites", PathRow)
        /\ Len(document.nodes) > 0 => OnlyAfter("insert", "knowledge_prerequisites", LastNode)
        /\ Attempted("insert", "knowledge_prerequisites") =>
              OkInserts("knowledge_nodes") = Len(document.nodes)
        /\ OnlyAfter("job", "completed", PathRow)
        /\ Len(document.edges) > 0 => OnlyAfter("job", "completed", LastEdge)
        /\ Attempted("job", "completed") =>
              /\ OkInserts("knowledge_nodes") = Len(document.nodes)
              /\ OkInserts("knowledge_prerequisites") = Len(document.edges)
              /\ OkInserts("learning_paths") = 1
        /\ result.returned /\ result.success =>
              /\ Called("job", "completed", TRUE)
              /\ Last(log) = Call("job", "completed", TRUE, NoProgress.batches_processed)

C29_Witness ==
    /\ pc = "done" /\ result.returned /\ result.success
    /\ Len(Uploads) = 2
    /\ OkInserts("knowledge_nodes") >= 2
    /\ OkInserts("knowledge_prerequisites") >= 1
    /\ jobRow.status = "completed"

(***************************************************************************)
(* C30: completed and failed are terminal and mutually exclusive: taking a *)
(* job-status update that raises to leave the row as it was, a run never   *)
(* writes both completed and failed, writes failed at most once, and after *)
(* writing completed or failed makes no further job-status write, oracle   *)
(* call, compression call or persistence write; and every run that starts  *)
(* with at least one material and whose collaborators always return or     *)
(* raise eventually reaches one of the two.                                *)
(***************************************************************************)
IsTerminalWrite(c) == c.op = "job" /\ c.what \in {"completed", "failed"} /\ c.ok

TerminalAndExclusive ==
    /\ ~(Called("job", "completed", TRUE) /\ Called("job", "failed", TRUE))
    /\ CountCalls("job", "failed") <= 1
    /\ \A x \in DOMAIN log : IsTerminalWrite(log[x]) => x = Len(log)
    /\ jobRow.status \in {"completed", "failed"} =>
          /\ IsTerminalWrite(Last(log))
          /\ Last(log).what = jobRow.status

C30_TerminalStatus ==
    /\ []TerminalAndExclusive
    /\ session_materials # << >> => <>(jobRow.status \in {"completed", "failed"})

====
